---- MODULE Spec2Model ----
(***************************************************************************)
(* Model of the inline SVG charting components of the dashboard:           *)
(* TimeSeriesChart, ScatterChart, BarChart, MMMContributionChart and the   *)
(* response-curve grid (computeCurve), with the useMeasure hook.           *)
(*                                                                         *)
(* One chart instance is mounted per behaviour (variable variant).  Its    *)
(* props are drawn in Init; memo holds the results of the component's      *)
(* useMemo blocks for the last render, and every action that changes a     *)
(* dependency re-renders (recomputes memo) as React does.                  *)
(*                                                                         *)
(* Numbers: JavaScript doubles are modelled as exact rationals n/d in      *)
(* lowest terms, so that x/y coordinates compare as values.  Timestamps    *)
(* are counted in days instead of milliseconds (the scales only use        *)
(* ratios of differences of timestamps, which do not depend on the unit).  *)
(* Array indices are 0-based as in the source; Null stands for null.       *)
(*                                                                         *)
(* Specifications: Spec (the charts), HoverSpec (the charts while their    *)
(* data prop changes), MeasureSpec (useMeasure), CacheSpec (the fetch      *)
(* effect and responseCache of MeridianResponseCurves), VegaSpec (its      *)
(* render effect), PageSpec (MMMResponseCurvesPage, MarketingMixDashboard),*)
(* UserSpec (useUserSync and GET /api/me), PreloadSpec (preloadMMMData).   *)
(* Each one holds the variables of the others at their idle values.        *)
(***************************************************************************)
EXTENDS Integers, Sequences, FiniteSets, TLC

\* ------------------------------------------------------------------------
\* Bounds of the model
\* ------------------------------------------------------------------------
MaxPoints == 3
MaxBuckets == 2

\* ------------------------------------------------------------------------
\* Exact rational arithmetic (stands for the double arithmetic of the code)
\* ------------------------------------------------------------------------
Abs(i) == IF i < 0 THEN -i ELSE i

RECURSIVE GCD(_, _)
GCD(a, b) == IF b = 0 THEN a ELSE GCD(b, a % b)

Norm(n, d) ==
  LET s == IF d < 0 THEN -1 ELSE 1
      g == GCD(Abs(n), Abs(d))
  IN  [n |-> (s * n) \div g, d |-> (s * d) \div g]

R(i) == [n |-> i, d |-> 1]
RAdd(a, b) == Norm(a.n * b.d + b.n * a.d, a.d * b.d)
RSub(a, b) == Norm(a.n * b.d - b.n * a.d, a.d * b.d)
RMul(a, b) == Norm(a.n * b.n, a.d * b.d)
RDiv(a, b) == Norm(a.n * b.d, a.d * b.n)
RLess(a, b) == a.n * b.d < b.n * a.d
RLeq(a, b) == a.n * b.d <= b.n * a.d
RAbs(a) == [n |-> Abs(a.n), d |-> a.d]
\* Math.max / Math.min of two numbers
RMax(a, b) == IF RLess(a, b) THEN b ELSE a
RMin(a, b) == IF RLess(b, a) THEN b ELSE a
\* Number.POSITIVE_INFINITY: every rational is RLess than it
POSITIVE_INFINITY == [n |-> 1, d |-> 0]

\* Math.max(...xs) / Math.min(...xs) over a non-empty array of integers
RECURSIVE MaxOf(_)
MaxOf(xs) ==
  IF Len(xs) = 1 THEN xs[1]
  ELSE LET m == MaxOf(Tail(xs)) IN IF xs[1] > m THEN xs[1] ELSE m

RECURSIVE MinOf(_)
MinOf(xs) ==
  IF Len(xs) = 1 THEN xs[1]
  ELSE LET m == MinOf(Tail(xs)) IN IF xs[1] < m THEN xs[1] ELSE m

IMax(a, b) == IF a > b THEN a ELSE b

\* Sequences of length 0..n over a set
SeqUpTo(S, n) == UNION {[1..k -> S] : k \in 0..n}

Null == -1

\* ------------------------------------------------------------------------
\* Path strings.  A path string is a sequence of tokens: a drawing command
\* with its coordinate pair ("M"/"L"), the close command "Z", or a
\* whitespace character (" " or "\n").
\* ------------------------------------------------------------------------
Cmd(c, x, y) == [cmd |-> c, x |-> x, y |-> y]
Chr(c) == [cmd |-> c, x |-> R(0), y |-> R(0)]
SP == Chr(" ")
NL == Chr("\n")
ZZ == Chr("Z")
IsSpace(t) == t.cmd \in {" ", "\n"}

\* Array.prototype.join(" ") over an array of path fragments
RECURSIVE JoinSp(_)
JoinSp(frags) ==
  IF Len(frags) = 0 THEN <<>>
  ELSE IF Len(frags) = 1 THEN frags[1]
  ELSE frags[1] \o <<SP>> \o JoinSp(Tail(frags))

\* String.prototype.replace(/\s+/g, " ")
RECURSIVE CollapseSpace(_)
CollapseSpace(s) ==
  IF Len(s) = 0 THEN <<>>
  ELSE IF IsSpace(s[1])
       THEN IF Len(s) > 1 /\ IsSpace(s[2])
            THEN CollapseSpace(Tail(s))
            ELSE <<SP>> \o CollapseSpace(Tail(s))
       ELSE <<s[1]>> \o CollapseSpace(Tail(s))

\* The line break and indentation inside the area-path template literal
TemplateBreak == <<NL, SP, SP, SP, SP, SP, SP, SP, SP>>

\* The drawing commands of a path string, whitespace dropped
RECURSIVE Commands(_)
Commands(s) ==
  IF Len(s) = 0 THEN <<>>
  ELSE IF IsSpace(s[1]) THEN Commands(Tail(s))
  ELSE <<s[1]>> \o Commands(Tail(s))

\* Number of coordinate pairs of a path string
CoordPairs(s) == Cardinality({i \in 1..Len(s) : s[i].cmd \in {"M", "L"}})

\* ------------------------------------------------------------------------
\* Props and measured sizes the model draws from
\* ------------------------------------------------------------------------
\* ISO date strings accepted as the `time` of a datum
TimeStrings == {"2024-01-01", "2024-01-02", "2024-01-08", "2024-01-15"}

\* new Date(s).getTime(), in days since the epoch
DateParse(s) ==
  CASE s = "2024-01-01" -> 19723
    [] s = "2024-01-02" -> 19724
    [] s = "2024-01-08" -> 19730
    [] s = "2024-01-15" -> 19737

\* Widths the container is measured at (0: laid out with no width)
Widths == {0, 200, 320, 400}

\* Offsets of the <svg> origin from the left edge of the viewport
SvgLefts == {16}

\* ------------------------------------------------------------------------
\* TimeSeriesChart
\* ------------------------------------------------------------------------
TS_DEFAULT_HEIGHT == 260
TS_PADDING == [top |-> 24, right |-> 24, bottom |-> 36, left |-> 48]

TimeSeriesDatum ==
  {[time |-> "2024-01-01", value |-> 10], [time |-> "2024-01-01", value |-> 20],
   [time |-> "2024-01-02", value |-> 20], [time |-> "2024-01-15", value |-> 10]}

\* const chartWidth = Math.max(width, 320)
TS_chartWidth(width) == IMax(width, 320)
\* Mutant: the inner width taken from the measured width, without the floor
TS_innerWidth_Unfloored(width) == IMax(width - TS_PADDING.left - TS_PADDING.right, 1)

\* const innerWidth = Math.max(chartWidth - PADDING.left - PADDING.right, 1)
TS_innerWidth(width) ==
  IMax(TS_chartWidth(width) - TS_PADDING.left - TS_PADDING.right, 1)
\* const innerHeight = Math.max(height - PADDING.top - PADDING.bottom, 1)
TS_innerHeight(height) == IMax(height - TS_PADDING.top - TS_PADDING.bottom, 1)

\* xScale of the time-series chart for the domain [minX, maxX]
TS_xScale(timestamp, minX, maxX, innerWidth) ==
  IF maxX = minX
  THEN RAdd(R(TS_PADDING.left), RDiv(R(innerWidth), R(2)))
  ELSE LET ratio == RDiv(R(timestamp - minX), R(maxX - minX))
       IN  RAdd(R(TS_PADDING.left), RMul(ratio, R(innerWidth)))

\* yScale of the time-series chart for the domain [minY, maxY]
TS_yScale(value, minY, maxY, innerHeight) ==
  IF maxY = minY
  THEN RAdd(R(TS_PADDING.top), RDiv(R(innerHeight), R(2)))
  ELSE LET ratio == RDiv(R(value - minY), R(maxY - minY))
       IN  RSub(R(TS_PADDING.top + innerHeight), RMul(ratio, R(innerHeight)))

\* Mutant: the points are emitted in ascending order of x (sorted by time)
\* instead of input order
RECURSIVE SortByX(_)
SortByX(points) ==
  IF Len(points) <= 1 THEN points
  ELSE LET m == CHOOSE i \in 1..Len(points) :
                  \A j \in 1..Len(points) :
                    \/ RLess(points[i].x, points[j].x)
                    \/ (points[i].x = points[j].x /\ i <= j)
           rest == [k \in 1..(Len(points) - 1) |->
                      IF k < m THEN points[k] ELSE points[k + 1]]
       IN  <<points[m]>> \o SortByX(rest)

LinePath_Sorted(points) ==
  JoinSp([i \in 1..Len(points) |->
            <<Cmd(IF i - 1 = 0 THEN "M" ELSE "L",
                  SortByX(points)[i].x, SortByX(points)[i].y)>>])

\* Mutant: the move command is issued for index 1 instead of index 0
LinePath_MoveAtOne(points) ==
  JoinSp([i \in 1..Len(points) |->
            <<Cmd(IF i - 1 = 1 THEN "M" ELSE "L", points[i].x, points[i].y)>>])

\* points.map((point, index) => `${index === 0 ? "M" : "L"}${x},${y}`).join(" ")
LinePath(points) ==
  JoinSp([i \in 1..Len(points) |->
            <<Cmd(IF i - 1 = 0 THEN "M" ELSE "L", points[i].x, points[i].y)>>])

\* Mutant: the two baseline corners are visited in the wrong order
TS_AreaPath_CornersSwapped(points, showArea, innerHeight) ==
  IF showArea /\ Len(points) > 0
  THEN LET firstPoint == points[1]
           lastPoint == points[Len(points)]
           base == R(TS_PADDING.top + innerHeight)
       IN  CollapseSpace(
             JoinSp([i \in 1..Len(points) |->
               <<Cmd(IF i - 1 = 0 THEN "M" ELSE "L", points[i].x, points[i].y)>>])
             \o TemplateBreak \o <<Cmd("L", firstPoint.x, base)>>
             \o TemplateBreak \o <<Cmd("L", lastPoint.x, base)>>
             \o TemplateBreak \o <<ZZ>>)
  ELSE <<>>

\* Mutant: the path is left open (no close command)
TS_AreaPath_NotClosed(points, showArea, innerHeight) ==
  IF showArea /\ Len(points) > 0
  THEN LET firstPoint == points[1]
           lastPoint == points[Len(points)]
           base == R(TS_PADDING.top + innerHeight)
       IN  CollapseSpace(
             JoinSp([i \in 1..Len(points) |->
               <<Cmd(IF i - 1 = 0 THEN "M" ELSE "L", points[i].x, points[i].y)>>])
             \o TemplateBreak \o <<Cmd("L", lastPoint.x, base)>>
             \o TemplateBreak \o <<Cmd("L", firstPoint.x, base)>>)
  ELSE <<>>

\* The area path of the time-series chart
TS_AreaPath(points, showArea, innerHeight) ==
  IF showArea /\ Len(points) > 0
  THEN LET firstPoint == points[1]
           lastPoint == points[Len(points)]
           base == R(TS_PADDING.top + innerHeight)
       IN  CollapseSpace(
             JoinSp([i \in 1..Len(points) |->
               <<Cmd(IF i - 1 = 0 THEN "M" ELSE "L", points[i].x, points[i].y)>>])
             \o TemplateBreak \o <<Cmd("L", lastPoint.x, base)>>
             \o TemplateBreak \o <<Cmd("L", firstPoint.x, base)>>
             \o TemplateBreak \o <<ZZ>>)
  ELSE <<>>

\* The useMemo block of TimeSeriesChart
TimeSeriesMemo(data, height, showArea, width) ==
  IF Len(data) = 0
  THEN [points |-> <<>>, areaPath |-> <<>>, linePath |-> <<>>,
        minY |-> 0, maxY |-> 0, minX |-> 0, maxX |-> 0]
  ELSE LET parsed == [i \in 1..Len(data) |->
                        [time |-> DateParse(data[i].time), value |-> data[i].value]]
           minY == MinOf([i \in 1..Len(parsed) |-> parsed[i].value])
           maxY == MaxOf([i \in 1..Len(parsed) |-> parsed[i].value])
           minX == MinOf([i \in 1..Len(parsed) |-> parsed[i].time])
           maxX == MaxOf([i \in 1..Len(parsed) |-> parsed[i].time])
           innerWidth == TS_innerWidth(width)
           innerHeight == TS_innerHeight(height)
           points == [i \in 1..Len(parsed) |->
                        [x |-> TS_xScale(parsed[i].time, minX, maxX, innerWidth),
                         y |-> TS_yScale(parsed[i].value, minY, maxY, innerHeight),
                         date |-> parsed[i].time,
                         value |-> parsed[i].value]]
       IN  [points |-> points,
            areaPath |-> TS_AreaPath(points, showArea, innerHeight),
            linePath |-> LinePath(points),
            minY |-> minY, maxY |-> maxY, minX |-> minX, maxX |-> maxX]

\* The hit-test loop of handleMouseMove over the scaled x-coordinates xs:
\* the state of the loop before iteration `index` is (closestIndex,
\* smallestDistance).
\* Mutant: the comparison is <= instead of <, so the last of several
\* equally near points wins
RECURSIVE ClosestLoop_LastOnTie(_, _, _, _, _)
ClosestLoop_LastOnTie(xs, x, index, closestIndex, smallestDistance) ==
  IF index >= Len(xs) THEN closestIndex
  ELSE LET distance == RAbs(RSub(xs[index + 1], x))
       IN  IF RLeq(distance, smallestDistance)
           THEN ClosestLoop_LastOnTie(xs, x, index + 1, index, distance)
           ELSE ClosestLoop_LastOnTie(xs, x, index + 1, closestIndex, smallestDistance)

RECURSIVE ClosestLoop(_, _, _, _, _)
ClosestLoop(xs, x, index, closestIndex, smallestDistance) ==
  IF index >= Len(xs) THEN closestIndex
  ELSE LET distance == RAbs(RSub(xs[index + 1], x))
       IN  IF RLess(distance, smallestDistance)
           THEN ClosestLoop(xs, x, index + 1, index, distance)
           ELSE ClosestLoop(xs, x, index + 1, closestIndex, smallestDistance)

\* Mutant: the index is reported 1-based
ClosestIndex_OneBased(xs, x) == ClosestLoop(xs, x, 0, 0, POSITIVE_INFINITY) + 1

ClosestIndex(xs, x) == ClosestLoop(xs, x, 0, 0, POSITIVE_INFINITY)

\* The pointer-sensitive <rect> of the time-series chart: its x attribute
\* and its width attribute
TS_rectX == TS_PADDING.left
TS_rectWidth(width) == IMax(width - TS_PADDING.left - TS_PADDING.right, 1)

\* event.clientX - event.currentTarget.getBoundingClientRect().left for a
\* pointer at chart x-coordinate cx, the <svg> being at svgLeft and the
\* <rect> at x attribute rectX inside it
PointerX(cx, svgLeft, rectX) ==
  LET clientX == RAdd(R(svgLeft), cx)
      boundsLeft == R(svgLeft + rectX)
  IN  RSub(clientX, boundsLeft)

\* Whether hoveredPoint is defined: hoverIndex is not null and is an index
\* of points
\* Mutant: the lower limit of the index is exclusive
TS_hasHoveredPoint_Positive(points, index) ==
  index # Null /\ index > 0 /\ index < Len(points)

TS_hasHoveredPoint(points, index) ==
  index # Null /\ index >= 0 /\ index < Len(points)

\* Mutant: the right limit of the tooltip taken from the measured width
TS_tooltipLeft_RawWidth(hoveredPoint, width) ==
  RMin(RMax(RSub(hoveredPoint.x, R(60)), R(TS_PADDING.left)),
       R(width - TS_PADDING.right - 120))

\* style.left of the tooltip of the hovered point
TS_tooltipLeft(hoveredPoint, width) ==
  RMin(RMax(RSub(hoveredPoint.x, R(60)), R(TS_PADDING.left)),
       R(IMax(width, 320) - TS_PADDING.right - 120))

\* ------------------------------------------------------------------------
\* ScatterChart
\* ------------------------------------------------------------------------
SC_DEFAULT_HEIGHT == 280
SC_PADDING == [top |-> 32, right |-> 32, bottom |-> 48, left |-> 56]

\* label is carried through unchanged and plays no part in the geometry
ScatterDatum == [label : {"p"}, x : {0, 5, 10}, y : {1, 3}]

\* Mutant: the measured width is used as it is, without the floor of 320
SC_chartWidth_Unfloored(width) == width

SC_chartWidth(width) == IMax(width, 320)
SC_innerWidth(width) ==
  IMax(SC_chartWidth(width) - SC_PADDING.left - SC_PADDING.right, 1)
SC_innerHeight(height) == IMax(height - SC_PADDING.top - SC_PADDING.bottom, 1)

\* Mutant: a zero-width domain mapped to the start of the range
SC_scaleX_DegenerateAtStart(value, minX, maxX, innerWidth) ==
  IF maxX = minX
  THEN R(SC_PADDING.left)
  ELSE RAdd(R(SC_PADDING.left),
            RMul(RDiv(R(value - minX), R(maxX - minX)), R(innerWidth)))

SC_scaleX(value, minX, maxX, innerWidth) ==
  IF maxX = minX
  THEN RAdd(R(SC_PADDING.left), RDiv(R(innerWidth), R(2)))
  ELSE RAdd(R(SC_PADDING.left),
            RMul(RDiv(R(value - minX), R(maxX - minX)), R(innerWidth)))

SC_scaleY(value, minY, maxY, innerHeight) ==
  IF maxY = minY
  THEN RAdd(R(SC_PADDING.top), RDiv(R(innerHeight), R(2)))
  ELSE RSub(R(SC_PADDING.top + innerHeight),
            RMul(RDiv(R(value - minY), R(maxY - minY)), R(innerHeight)))

\* The useMemo block of ScatterChart
ScatterMemo(data, height, width) ==
  IF Len(data) = 0
  THEN [points |-> <<>>, minX |-> 0, maxX |-> 0, minY |-> 0, maxY |-> 0]
  ELSE LET minX == MinOf([i \in 1..Len(data) |-> data[i].x])
           maxX == MaxOf([i \in 1..Len(data) |-> data[i].x])
           minY == MinOf([i \in 1..Len(data) |-> data[i].y])
           maxY == MaxOf([i \in 1..Len(data) |-> data[i].y])
           innerWidth == SC_innerWidth(width)
           innerHeight == SC_innerHeight(height)
       IN  [points |-> [i \in 1..Len(data) |->
                          [label |-> data[i].label, x |-> data[i].x, y |-> data[i].y,
                           cx |-> SC_scaleX(data[i].x, minX, maxX, innerWidth),
                           cy |-> SC_scaleY(data[i].y, minY, maxY, innerHeight)]],
            minX |-> minX, maxX |-> maxX, minY |-> minY, maxY |-> maxY]

\* ------------------------------------------------------------------------
\* BarChart
\* ------------------------------------------------------------------------
BAR_DEFAULT_HEIGHT == 280

BarLabels == <<"A", "B", "C", "D", "E">>
BarValues == {-5, 0, 5, 10}

\* The useMemo block of BarChart
BarMemo(data) ==
  IF Len(data) = 0
  THEN [bars |-> <<>>, maxValue |-> 0]
  ELSE LET m == MaxOf([i \in 1..Len(data) |-> data[i].value])
       IN  [bars |-> [i \in 1..Len(data) |->
                        [label |-> data[i].label, value |-> data[i].value,
                         index |-> i - 1]],
            maxValue |-> IF m = 0 THEN 1 ELSE m]

Bar_chartWidth(width) == IMax(width, 320)
\* const barAreaWidth = chartWidth - 160
Bar_barAreaWidth(width) == Bar_chartWidth(width) - 160

\* const barWidth = (bar.value / maxValue) * barAreaWidth
Bar_barWidth(bar, maxValue, barAreaWidth) ==
  RMul(RDiv(R(bar.value), R(maxValue)), R(barAreaWidth))

\* Mutant: the bar is drawn at barWidth, without the floor of 4
Bar_width_NoFloor(bar, maxValue, barAreaWidth) ==
  Bar_barWidth(bar, maxValue, barAreaWidth)

\* style.width of the bar: Math.max(barWidth, 4)
Bar_width(bar, maxValue, barAreaWidth) ==
  RMax(Bar_barWidth(bar, maxValue, barAreaWidth), R(4))

\* ------------------------------------------------------------------------
\* Response-curve grid: computeCurve
\* ------------------------------------------------------------------------
RC_WIDTH == 280
RC_HEIGHT == 200
RC_PADDING == [top |-> 24, right |-> 18, bottom |-> 36, left |-> 48]

MMMResponseCurvePoint ==
  {[spend |-> s, mean |-> m, lower |-> m - (s \div 20), upper |-> m + 10 + (s \div 10)] :
     s \in {0, 100, 200}, m \in {0, 40}}

RC_xScale(value, maxSpend) ==
  IF maxSpend = 0 THEN R(RC_PADDING.left)
  ELSE LET ratio == RDiv(R(value), R(maxSpend))
       IN  RAdd(R(RC_PADDING.left),
                RMul(ratio, R(RC_WIDTH - RC_PADDING.left - RC_PADDING.right)))

RC_yScale(value, maxLift) ==
  IF maxLift = 0 THEN R(RC_HEIGHT - RC_PADDING.bottom)
  ELSE LET ratio == RDiv(R(value), R(maxLift))
       IN  RAdd(R(RC_PADDING.top),
                RMul(RSub(R(1), ratio),
                     R(RC_HEIGHT - RC_PADDING.top - RC_PADDING.bottom)))

\* Array.prototype.reverse
Reverse(xs) == [i \in 1..Len(xs) |-> xs[Len(xs) + 1 - i]]

\* Mutant: the reversed lower bounds are paired with the spends in forward
\* order
computeCurve_LowerUnreversedSpend(channel) ==
  IF Len(channel.points) = 0
  THEN [areaPath |-> <<>>, linePath |-> <<>>, maxSpend |-> 0, maxLift |-> 0,
        saturationX |-> R(RC_PADDING.left), diminishingX |-> R(RC_PADDING.left)]
  ELSE LET n == Len(channel.points)
           spends == [i \in 1..n |-> channel.points[i].spend]
           means == [i \in 1..n |-> channel.points[i].mean]
           lowers == [i \in 1..n |-> channel.points[i].lower]
           uppers == [i \in 1..n |-> channel.points[i].upper]
           maxSpend == MaxOf(spends)
           maxLift == MaxOf(means)
           linePath ==
             JoinSp([i \in 1..n |->
               <<Cmd(IF i - 1 = 0 THEN "M" ELSE "L",
                     RC_xScale(spends[i], maxSpend), RC_yScale(means[i], maxLift))>>])
           upperBoundary ==
             JoinSp([i \in 1..n |->
               <<Cmd(IF i - 1 = 0 THEN "M" ELSE "L",
                     RC_xScale(spends[i], maxSpend), RC_yScale(uppers[i], maxLift))>>])
           reversed == Reverse(lowers)
           \* index is 0-based: spends[lowers.length - 1 - index]
           lowerBoundary ==
             JoinSp([i \in 1..n |->
               <<Cmd("L", RC_xScale(spends[(i - 1) + 1], maxSpend),
                     RC_yScale(reversed[i], maxLift))>>])
           areaPath ==
             IF Len(upperBoundary) > 0
             THEN CollapseSpace(upperBoundary \o <<SP>> \o lowerBoundary
                                \o <<SP>> \o <<ZZ>>)
             ELSE <<>>
       IN  [areaPath |-> areaPath, linePath |-> linePath,
            maxSpend |-> maxSpend, maxLift |-> maxLift,
            saturationX |-> RC_xScale(channel.saturation_spend, maxSpend),
            diminishingX |-> RC_xScale(channel.diminishing_returns_start, maxSpend)]

\* function computeCurve(channel)
computeCurve(channel) ==
  IF Len(channel.points) = 0
  THEN [areaPath |-> <<>>, linePath |-> <<>>, maxSpend |-> 0, maxLift |-> 0,
        saturationX |-> R(RC_PADDING.left), diminishingX |-> R(RC_PADDING.left)]
  ELSE LET n == Len(channel.points)
           spends == [i \in 1..n |-> channel.points[i].spend]
           means == [i \in 1..n |-> channel.points[i].mean]
           lowers == [i \in 1..n |-> channel.points[i].lower]
           uppers == [i \in 1..n |-> channel.points[i].upper]
           maxSpend == MaxOf(spends)
           maxLift == MaxOf(means)
           linePath ==
             JoinSp([i \in 1..n |->
               <<Cmd(IF i - 1 = 0 THEN "M" ELSE "L",
                     RC_xScale(spends[i], maxSpend), RC_yScale(means[i], maxLift))>>])
           upperBoundary ==
             JoinSp([i \in 1..n |->
               <<Cmd(IF i - 1 = 0 THEN "M" ELSE "L",
                     RC_xScale(spends[i], maxSpend), RC_yScale(uppers[i], maxLift))>>])
           reversed == Reverse(lowers)
           \* index is 0-based: spends[lowers.length - 1 - index]
           lowerBoundary ==
             JoinSp([i \in 1..n |->
               <<Cmd("L", RC_xScale(spends[(n - 1 - (i - 1)) + 1], maxSpend),
                     RC_yScale(reversed[i], maxLift))>>])
           areaPath ==
             IF Len(upperBoundary) > 0
             THEN CollapseSpace(upperBoundary \o <<SP>> \o lowerBoundary
                                \o <<SP>> \o <<ZZ>>)
             ELSE <<>>
       IN  [areaPath |-> areaPath, linePath |-> linePath,
            maxSpend |-> maxSpend, maxLift |-> maxLift,
            saturationX |-> RC_xScale(channel.saturation_spend, maxSpend),
            diminishingX |-> RC_xScale(channel.diminishing_returns_start, maxSpend)]

\* ------------------------------------------------------------------------
\* MMMContributionChart
\* ------------------------------------------------------------------------
MMM_DEFAULT_HEIGHT == 320
MMM_PADDING == [top |-> 32, right |-> 24, bottom |-> 36, left |-> 64]

Chan(id, mean) == [id |-> id, mean |-> mean]

\* Channel lists of a time bucket (name, share and the interval bounds of a
\* channel are only displayed and are left out)
ChannelLists ==
  {<<>>,
   <<Chan("tv", 2)>>,
   <<Chan("tv", 2), Chan("search", 3)>>,
   <<Chan("search", 1), Chan("radio", 5)>>,
   <<Chan("tv", 1), Chan("tv", 2)>>}

MMMContributionPoint == [time : {"2024-01-01", "2024-01-08"}, channels : ChannelLists]

\* Inputs of three buckets whose times are not in ascending order
UnorderedBuckets ==
  LET bucket(t) == [time |-> t, channels |-> <<Chan("tv", 2)>>]
  IN  {<<bucket("2024-01-08"), bucket("2024-01-15"), bucket("2024-01-01")>>,
       <<bucket("2024-01-15"), bucket("2024-01-01"), bucket("2024-01-08")>>}

\* point.channels.find((entry) => entry.id === id): the 1-based position of
\* the first entry with that id, 0 when there is none (undefined)
FindChannel(channels, id) ==
  IF \E k \in 1..Len(channels) : channels[k].id = id
  THEN CHOOSE k \in 1..Len(channels) :
         /\ channels[k].id = id
         /\ \A j \in 1..(k - 1) : channels[j].id # id
  ELSE 0

\* The channelOrder.forEach loop of one bucket: the layers pushed from
\* position k of channelOrder on, starting at the running total `baseline`
\* Mutant: the running total is not advanced, so every layer starts at 0
RECURSIVE StackLayers_NoAdvance(_, _, _, _)
StackLayers_NoAdvance(channels, channelOrder, k, baseline) ==
  IF k > Len(channelOrder) THEN <<>>
  ELSE LET id == channelOrder[k]
           found == IF \E j \in 1..Len(channels) : channels[j].id = id
                    THEN CHOOSE j \in 1..Len(channels) : channels[j].id = id
                    ELSE 0
           value == IF found = 0 THEN 0 ELSE channels[found].mean
           layer == [id |-> id, lower |-> baseline, upper |-> baseline + value,
                     value |-> value]
       IN  <<layer>> \o StackLayers_NoAdvance(channels, channelOrder, k + 1, baseline)

RECURSIVE StackLayers(_, _, _, _)
StackLayers(channels, channelOrder, k, baseline) ==
  IF k > Len(channelOrder) THEN <<>>
  ELSE LET id == channelOrder[k]
           found == FindChannel(channels, id)
           value == IF found = 0 THEN 0 ELSE channels[found].mean
           layer == [id |-> id, lower |-> baseline, upper |-> baseline + value,
                     value |-> value]
       IN  <<layer>> \o StackLayers(channels, channelOrder, k + 1, baseline + value)

\* The first useMemo block of MMMContributionChart
StackedMemo(data) ==
  IF Len(data) = 0
  THEN [stacked |-> <<>>, totalMax |-> 0, seriesOrder |-> <<>>, times |-> <<>>]
  ELSE LET channelOrder == [k \in 1..Len(data[1].channels) |-> data[1].channels[k].id]
           stackedLayers == [i \in 1..Len(data) |->
                               StackLayers(data[i].channels, channelOrder, 1, 0)]
           \* the value of `baseline` after the last layer of bucket i
           total(i) == IF Len(channelOrder) = 0 THEN 0
                       ELSE stackedLayers[i][Len(channelOrder)].upper
           maxTotal == MaxOf(<<0>> \o [i \in 1..Len(data) |-> total(i)])
       IN  [stacked |-> stackedLayers, totalMax |-> maxTotal,
            seriesOrder |-> channelOrder,
            times |-> [i \in 1..Len(data) |-> DateParse(data[i].time)]]

MMM_chartWidth(width) == IMax(width, 320)
MMM_innerWidth(width) ==
  IMax(MMM_chartWidth(width) - MMM_PADDING.left - MMM_PADDING.right, 1)
MMM_innerHeight(height) == IMax(height - MMM_PADDING.top - MMM_PADDING.bottom, 1)

MMM_minTime(times) == IF Len(times) > 0 THEN times[1] ELSE 0
MMM_maxTime(times) == IF Len(times) > 0 THEN times[Len(times)] ELSE 0

MMM_xScale(timestamp, times, innerWidth) ==
  IF Len(times) = 0 \/ MMM_maxTime(times) = MMM_minTime(times)
  THEN RAdd(R(MMM_PADDING.left), RDiv(R(innerWidth), R(2)))
  ELSE LET ratio == RDiv(R(timestamp - MMM_minTime(times)),
                         R(MMM_maxTime(times) - MMM_minTime(times)))
       IN  RAdd(R(MMM_PADDING.left), RMul(ratio, R(innerWidth)))

MMM_yScale(value, totalMax, innerHeight) ==
  IF totalMax = 0 THEN R(MMM_PADDING.top + innerHeight)
  ELSE LET ratio == RDiv(R(value), R(totalMax))
       IN  RSub(R(MMM_PADDING.top + innerHeight), RMul(ratio, R(innerHeight)))

\* The path of the layer at (1-based) position seriesIndex of seriesOrder
MMM_LayerPath(seriesIndex, stacked, times, totalMax, innerWidth, innerHeight) ==
  LET n == Len(stacked)
      upperPoints == [i \in 1..n |->
        <<Cmd(IF i - 1 = 0 THEN "M" ELSE "L",
              MMM_xScale(times[i], times, innerWidth),
              MMM_yScale(stacked[i][seriesIndex].upper, totalMax, innerHeight))>>]
      \* index runs from stacked.length - 1 down to 0
      lowerPoints == [i \in 1..n |->
        <<Cmd("L",
              MMM_xScale(times[n + 1 - i], times, innerWidth),
              MMM_yScale(stacked[n + 1 - i][seriesIndex].lower, totalMax, innerHeight))>>]
  IN  JoinSp(upperPoints) \o <<SP>> \o JoinSp(lowerPoints) \o <<SP>> \o <<ZZ>>

\* The second useMemo block of MMMContributionChart: one path per series
MMM_Paths(m, height, width) ==
  [k \in 1..Len(m.seriesOrder) |->
     [id |-> m.seriesOrder[k],
      path |-> MMM_LayerPath(k, m.stacked, m.times, m.totalMax,
                             MMM_innerWidth(width), MMM_innerHeight(height))]]

\* Everything MMMContributionChart computes in one render
ContributionMemo(data, height, width) ==
  LET m == StackedMemo(data)
  IN  [stacked |-> m.stacked, totalMax |-> m.totalMax,
       seriesOrder |-> m.seriesOrder, times |-> m.times,
       paths |-> MMM_Paths(m, height, width)]

\* The pointer-sensitive <rect> of the contribution chart
MMM_rectX == MMM_PADDING.left
MMM_rectWidth(width) == MMM_innerWidth(width)

\* ------------------------------------------------------------------------
\* The mounted chart instance
\* ------------------------------------------------------------------------
VARIABLES
  variant,     \* which component the instance is
  data,        \* its data prop (the channel, for a response-curve card)
  height,      \* its height prop
  showArea,    \* its showArea prop (time-series chart)
  mounted,     \* whether the first render has happened
  size,        \* the state of useMeasure: [width, height]
  hoverIndex,  \* the hover state (time-series, contribution and bar chart)
  memo,        \* the results of the useMemo blocks of the last render
  \* -- the life cycle of the useMeasure hook of the instance
  attached,    \* whether ref.current holds the element
  observers,   \* the ResizeObservers created so far
  unmounted,   \* whether the component has been torn down
  published,   \* the sizes passed to setSize so far
  \* -- the MeridianResponseCurves instances and their shared cache
  now,           \* Date.now(), in minutes
  responseCache, \* the module-level Map: cache key -> entry (or Null)
  requests,      \* the requests issued so far, by request number
  instances,     \* the state of each MeridianResponseCurves instance
  \* -- the pages that load their data in an effect
  curvesPage,    \* the state of MMMResponseCurvesPage
  curveRequests, \* the getMMMResponseCurves calls of its effect runs
  dashboard,     \* the state of MarketingMixDashboard
  geoRequests,   \* the getGeoSeries calls of its effect runs
  \* -- the user sync hook and the /api/me route
  userSync,      \* the state of useUserSync
  meFetches,     \* the fetch('/api/me') calls of the hook
  backendCalls,  \* the requests the route handler has sent to the backend
  \* -- preloadMMMData
  preloadPromise, \* the module-level variable: a promise number or Null
  preloads,       \* the preload sequences started so far
  preloadCalls,   \* what each call of preloadMMMData returned
  \* -- the render effect of a MeridianResponseCurves instance
  chartInstance, \* spec state, viewRef.current, mounted
  renders,       \* the renderChart invocations so far
  vegaViews          \* the views vega-embed has created so far

chartVars == <<variant, data, height, showArea, mounted, size, hoverIndex, memo>>
measureVars == <<attached, observers, unmounted, published>>
cacheVars == <<now, responseCache, requests, instances>>
pageVars == <<curvesPage, curveRequests, dashboard, geoRequests>>
userVars == <<userSync, meFetches, backendCalls>>
preloadVars == <<preloadPromise, preloads, preloadCalls>>
vegaVars == <<chartInstance, renders, vegaViews>>
restVars == <<pageVars, userVars, preloadVars, vegaVars>>
vars == <<chartVars, measureVars, cacheVars, restVars>>

\* The variables the chart rendering and hover handlers do not touch
notChart == <<measureVars, cacheVars, restVars>>

\* The values the variables outside the life cycle of useMeasure, and
\* outside the response cache, are held at while the charts are explored
MeasureIdle ==
  /\ attached = TRUE
  /\ observers = <<>>
  /\ unmounted = FALSE
  /\ published = <<>>

CacheIdle ==
  /\ now = 0
  /\ responseCache = <<>>
  /\ requests = <<>>
  /\ instances = <<>>

PageIdle ==
  /\ curvesPage = <<>>
  /\ curveRequests = <<>>
  /\ dashboard = <<>>
  /\ geoRequests = <<>>

UserIdle ==
  /\ userSync = [userData |-> "null", loading |-> TRUE, error |-> "null"]
  /\ meFetches = <<>>
  /\ backendCalls = <<>>

PreloadIdle ==
  /\ preloadPromise = Null
  /\ preloads = <<>>
  /\ preloadCalls = <<>>

VegaIdle ==
  /\ chartInstance = [phase |-> "initial", spec |-> Null, container |-> FALSE,
                      viewRef |-> Null]
  /\ renders = <<>>
  /\ vegaViews = <<>>

RestIdle == PageIdle /\ UserIdle /\ PreloadIdle /\ VegaIdle

Variants == {"TimeSeries", "Scatter", "Bar", "Contribution", "Curve"}

BAR_HEIGHT == 32
GAP == 14

\* The data props the model draws from, per component
DataSets(v) ==
  CASE v = "TimeSeries" -> SeqUpTo(TimeSeriesDatum, MaxPoints)
    [] v = "Scatter" -> SeqUpTo(ScatterDatum, MaxPoints)
    [] v = "Bar" ->
         {[i \in 1..k |-> [label |-> BarLabels[i], value |-> f[i]]] :
            k \in 0..MaxPoints, f \in [1..MaxPoints -> BarValues]}
    [] v = "Contribution" ->
         SeqUpTo(MMMContributionPoint, MaxBuckets) \cup UnorderedBuckets
    [] v = "Curve" ->
         {[points |-> ps, saturation_spend |-> 100, diminishing_returns_start |-> 50] :
            ps \in SeqUpTo(MMMResponseCurvePoint, MaxPoints)}

\* The height props the model draws from: the default and one so small that
\* nothing is left between the paddings
Heights(v) ==
  CASE v = "TimeSeries" -> {TS_DEFAULT_HEIGHT}
    [] v = "Scatter" -> {SC_DEFAULT_HEIGHT, 60}
    [] v = "Bar" -> {BAR_DEFAULT_HEIGHT}
    [] v = "Contribution" -> {MMM_DEFAULT_HEIGHT}
    [] v = "Curve" -> {RC_HEIGHT}

\* One render of the component: its useMemo results
Render(v, d, h, area, width) ==
  CASE v = "TimeSeries" -> TimeSeriesMemo(d, h, area, width)
    [] v = "Scatter" -> ScatterMemo(d, h, width)
    [] v = "Bar" -> BarMemo(d)
    [] v = "Contribution" -> ContributionMemo(d, h, width)
    [] v = "Curve" -> computeCurve(d)

\* style={{ height }} of the measured container
ContainerHeight ==
  IF variant = "Bar"
  THEN IMax(height, Len(data) * (BAR_HEIGHT + GAP))
  ELSE height

Init ==
  /\ variant \in Variants
  /\ data \in DataSets(variant)
  /\ height \in Heights(variant)
  /\ showArea \in (IF variant = "TimeSeries" THEN BOOLEAN ELSE {FALSE})
  /\ mounted = FALSE
  /\ size = [width |-> 0, height |-> height]
  /\ hoverIndex = Null
  /\ memo = <<>>
  /\ MeasureIdle
  /\ CacheIdle
  /\ RestIdle

\* The first render: useState/useMeasure hold their initial values
Mount ==
  /\ ~mounted
  /\ mounted' = TRUE
  /\ memo' = Render(variant, data, height, showArea, size.width)
  /\ UNCHANGED <<variant, data, height, showArea, size, hoverIndex>>
  /\ UNCHANGED notChart

\* useMeasure publishes a size (the initial clientWidth/clientHeight of the
\* mount effect, or a ResizeObserver entry) and the component re-renders
Resize(w) ==
  /\ mounted
  /\ variant # "Curve"
  /\ size' = [width |-> w, height |-> ContainerHeight]
  /\ memo' = Render(variant, data, height, showArea, w)
  /\ UNCHANGED <<variant, data, height, showArea, mounted, hoverIndex>>
  /\ UNCHANGED notChart

\* Chart x-coordinates at which the model places the pointer inside the
\* <rect> spanning [rectX, rectX + rectWidth]: the edges of the rect, the
\* x of every point, and the positions that lie rectX to the right of a
\* point or of the midpoint of two points
PointerXs(xs, rectX, rectWidth) ==
  LET px == {xs[i] : i \in 1..Len(xs)}
      mids == {RDiv(RAdd(a, b), R(2)) : a \in px, b \in px}
      cand == px \cup {RAdd(c, R(rectX)) : c \in px \cup mids}
                 \cup {R(rectX), R(rectX + rectWidth)}
  IN  {c \in cand : RLeq(R(rectX), c) /\ RLeq(c, R(rectX + rectWidth))}

TS_xs(m) == [i \in 1..Len(m.points) |-> m.points[i].x]

\* handleMouseMove of TimeSeriesChart, the pointer at chart x-coordinate cx
TS_handleMouseMove(cx, svgLeft) ==
  /\ mounted
  /\ variant = "TimeSeries"
  /\ IF Len(memo.points) = 0
     THEN UNCHANGED hoverIndex
     ELSE LET x == PointerX(cx, svgLeft, TS_rectX)
          IN  hoverIndex' = ClosestIndex(TS_xs(memo), x)
  /\ UNCHANGED <<variant, data, height, showArea, mounted, size, memo>>
  /\ UNCHANGED notChart

\* onMouseLeave of the <rect> of TimeSeriesChart
TS_onMouseLeave ==
  /\ mounted
  /\ variant = "TimeSeries"
  /\ hoverIndex' = Null
  /\ UNCHANGED <<variant, data, height, showArea, mounted, size, memo>>
  /\ UNCHANGED notChart

MMM_xs(m, width) ==
  [i \in 1..Len(m.stacked) |-> MMM_xScale(m.times[i], m.times, MMM_innerWidth(width))]

\* handleMouseMove of MMMContributionChart
MMM_handleMouseMove(cx, svgLeft) ==
  /\ mounted
  /\ variant = "Contribution"
  /\ IF Len(memo.stacked) = 0
     THEN UNCHANGED hoverIndex
     ELSE LET x == PointerX(cx, svgLeft, MMM_rectX)
          IN  hoverIndex' = ClosestIndex(MMM_xs(memo, size.width), x)
  /\ UNCHANGED <<variant, data, height, showArea, mounted, size, memo>>
  /\ UNCHANGED notChart

\* onMouseLeave of the <rect> of MMMContributionChart
MMM_onMouseLeave ==
  /\ mounted
  /\ variant = "Contribution"
  /\ hoverIndex' = Null
  /\ UNCHANGED <<variant, data, height, showArea, mounted, size, memo>>
  /\ UNCHANGED notChart

\* onMouseEnter of the row of the bar at position index
Bar_onMouseEnter(index) ==
  /\ mounted
  /\ variant = "Bar"
  /\ index \in 0..(Len(memo.bars) - 1)
  /\ hoverIndex' = memo.bars[index + 1].index
  /\ UNCHANGED <<variant, data, height, showArea, mounted, size, memo>>
  /\ UNCHANGED notChart

\* onMouseLeave of a bar row
Bar_onMouseLeave ==
  /\ mounted
  /\ variant = "Bar"
  /\ Len(memo.bars) > 0
  /\ hoverIndex' = Null
  /\ UNCHANGED <<variant, data, height, showArea, mounted, size, memo>>
  /\ UNCHANGED notChart

TS_PointerMove ==
  \E svgLeft \in SvgLefts :
    \E cx \in PointerXs(TS_xs(memo), TS_rectX, TS_rectWidth(size.width)) :
      TS_handleMouseMove(cx, svgLeft)

MMM_PointerMove ==
  \E svgLeft \in SvgLefts :
    \E cx \in PointerXs(MMM_xs(memo, size.width), MMM_rectX, MMM_rectWidth(size.width)) :
      MMM_handleMouseMove(cx, svgLeft)

Next ==
  \/ Mount
  \/ \E w \in Widths : Resize(w)
  \/ (mounted /\ variant = "TimeSeries" /\ TS_PointerMove)
  \/ TS_onMouseLeave
  \/ (mounted /\ variant = "Contribution" /\ MMM_PointerMove)
  \/ MMM_onMouseLeave
  \/ \E index \in 0..MaxPoints : Bar_onMouseEnter(index)
  \/ Bar_onMouseLeave

Spec == Init /\ [][Next]_vars

\* ------------------------------------------------------------------------
\* The charts with a hover index while their data prop changes
\* ------------------------------------------------------------------------
\* The parent passes another data array to a time-series or contribution
\* chart: the component re-renders, its useMemo blocks are recomputed for
\* the new data, and the hoverIndex state stays as it is
SetData(d) ==
  /\ mounted
  /\ variant \in {"TimeSeries", "Contribution"}
  /\ d # data
  /\ data' = d
  /\ memo' = Render(variant, d, height, showArea, size.width)
  /\ UNCHANGED <<variant, height, showArea, mounted, size, hoverIndex>>
  /\ UNCHANGED notChart

\* hoveredPoint of TimeSeriesChart: << >> stands for undefined, for which no
\* tooltip is rendered
TS_hoveredPoint(m, index) ==
  IF TS_hasHoveredPoint(m.points, index) THEN <<m.points[index + 1]>> ELSE <<>>

\* hoveredLayers and hoveredTime of MMMContributionChart, whose tooltip is
\* rendered when both are truthy (an array and a Date always are)
MMM_hoveredLayers(m, index) ==
  IF /\ index # Null /\ index >= 0 /\ index < Len(m.stacked)
     /\ index # Null /\ index >= 0 /\ index < Len(m.times)
  THEN <<[layers |-> m.stacked[index + 1], time |-> m.times[index + 1]]>>
  ELSE <<>>

\* The data changes followed: to a prefix of the data (fewer or zero
\* points), to the data without its first point, and to the data with one
\* more point
HoverNext ==
  \/ Next
  \/ \E k \in 0..MaxPoints :
       /\ variant \in {"TimeSeries", "Contribution"}
       /\ k < Len(data)
       /\ SetData(SubSeq(data, 1, k))
  \/ /\ variant \in {"TimeSeries", "Contribution"}
     /\ Len(data) > 1
     /\ SetData(Tail(data))
  \/ \E e \in TimeSeriesDatum :
       variant = "TimeSeries" /\ Len(data) < MaxPoints /\ SetData(Append(data, e))
  \/ \E e \in MMMContributionPoint :
       variant = "Contribution" /\ Len(data) < MaxBuckets /\ SetData(Append(data, e))

HoverSpec == Init /\ [][HoverNext]_vars

\* ------------------------------------------------------------------------
\* The life cycle of useMeasure inside one component: the mount effect, the
\* ResizeObserver callback and the cleanup of the effect at unmount.  The
\* chart is not rendered here (memo stays empty); size is the state of the
\* hook and published records every call of setSize.
\* ------------------------------------------------------------------------
\* Bound on the number of setSize calls that are followed
MaxPublished == 3

\* The components that call useMeasure(height)
MeasuredVariants == {"TimeSeries", "Scatter", "Bar", "Contribution"}

\* The variables useMeasure does not touch
notMeasure == <<variant, data, height, showArea, hoverIndex, memo, cacheVars, restVars>>

\* new ResizeObserver(callback) followed by observer.observe(element)
NewObserver == [observing |-> TRUE, disconnects |-> 0]

\* Mutant: the cleanup leaves the observer connected
Disconnect_Noop(o) == o

\* observer.disconnect()
Disconnect(o) == [observing |-> FALSE, disconnects |-> o.disconnects + 1]

MeasureInit ==
  /\ variant \in MeasuredVariants
  /\ data = <<>>
  /\ height \in Heights(variant)
  /\ showArea = FALSE
  /\ mounted = FALSE
  /\ size = [width |-> 0, height |-> height]
  /\ hoverIndex = Null
  /\ memo = <<>>
  /\ attached \in BOOLEAN
  /\ observers = <<>>
  /\ unmounted = FALSE
  /\ published = <<>>
  /\ CacheIdle
  /\ RestIdle

\* The component mounts and the effect of useMeasure runs: it returns early
\* when ref.current is null, otherwise it creates an observer and publishes
\* the element's clientWidth / clientHeight
UM_Effect ==
  /\ ~mounted /\ ~unmounted
  /\ mounted' = TRUE
  /\ IF ~attached
     THEN UNCHANGED <<observers, size, published>>
     ELSE \E clientWidth \in Widths :
            /\ observers' = Append(observers, NewObserver)
            /\ size' = [width |-> clientWidth, height |-> ContainerHeight]
            /\ published' = Append(published, size')
  /\ UNCHANGED <<attached, unmounted>>
  /\ UNCHANGED notMeasure

\* The callback of observer o is delivered an entry with contentRect
\* width w (the platform delivers entries only to an observer that is
\* observing)
UM_ResizeCallback(o, w) ==
  /\ mounted
  /\ o \in 1..Len(observers)
  /\ observers[o].observing
  /\ Len(published) < MaxPublished
  /\ size' = [width |-> w, height |-> ContainerHeight]
  /\ published' = Append(published, size')
  /\ UNCHANGED <<mounted, attached, observers, unmounted>>
  /\ UNCHANGED notMeasure

\* The component unmounts: the cleanup returned by the effect, if the
\* effect got that far, disconnects its observer
UM_Cleanup ==
  /\ mounted /\ ~unmounted
  /\ unmounted' = TRUE
  /\ observers' = [o \in 1..Len(observers) |-> Disconnect(observers[o])]
  /\ UNCHANGED <<mounted, attached, size, published>>
  /\ UNCHANGED notMeasure

\* ref.current is set after the effect has run; the effect has no
\* dependencies and does not run again
UM_AttachLater ==
  /\ mounted /\ ~unmounted
  /\ ~attached
  /\ attached' = TRUE
  /\ UNCHANGED <<mounted, size, observers, unmounted, published>>
  /\ UNCHANGED notMeasure

MeasureNext ==
  \/ UM_Effect
  \/ \E o \in 1..1 : \E w \in Widths : UM_ResizeCallback(o, w)
  \/ UM_Cleanup
  \/ UM_AttachLater

MeasureSpec == MeasureInit /\ [][MeasureNext]_vars

\* ------------------------------------------------------------------------
\* MeridianResponseCurves: the fetch effect of every instance and the
\* module-level responseCache they share.  Time is counted in minutes.
\* An entry object of the cache is identified with the number of the
\* request it was created for: requests[r] holds the state of the request
\* getMMMResponseCurvesChart and the fields of that entry, and
\* responseCache maps a cache key to the entry it refers to.  The chart
\* components above are not part of this specification.
\* ------------------------------------------------------------------------
\* Bounds: the requests issued and the time followed
MaxRequests == 3
MaxTime == 5

\* CACHE_TTL_MS = 5 * 60 * 1000, in minutes
CACHE_TTL == 5

\* The mounted places of the page that can hold a MeridianResponseCurves
InstanceIds == {"a", "b"}

\* The props of an instance; confidenceLevel is in units of 0.00001
CurveParams ==
  {[confidenceLevel |-> 90000, plotSeparately |-> FALSE, includeCI |-> TRUE],
   [confidenceLevel |-> 90004, plotSeparately |-> FALSE, includeCI |-> TRUE],
   [confidenceLevel |-> 90000, plotSeparately |-> TRUE, includeCI |-> TRUE]}

\* Steps by which the clock advances between events: to just before the
\* time to live has passed, or by exactly the time to live
TickSteps == {CACHE_TTL - 1, CACHE_TTL}

\* Number.prototype.toFixed(4) of a confidence level in [0, 1): its four
\* decimals after rounding
ToFixed4(confidenceLevel) == (confidenceLevel + 5) \div 10

\* Number(b) of a boolean
BoolNumber(b) == IF b THEN 1 ELSE 0

\* `${confidenceKey}_${Number(plotSeparately)}_${Number(includeCI)}`
getCacheKey(params) ==
  <<ToFixed4(params.confidenceLevel), BoolNumber(params.plotSeparately),
    BoolNumber(params.includeCI)>>

CacheKeys == {getCacheKey(p) : p \in CurveParams}

\* The variables the fetch effect does not touch
notCache == <<chartVars, measureVars, restVars>>

\* The chart and useMeasure variables while the cache is explored
ChartIdle ==
  /\ variant = "Curve"
  /\ data = [points |-> <<>>, saturation_spend |-> 100, diminishing_returns_start |-> 50]
  /\ height = RC_HEIGHT
  /\ showArea = FALSE
  /\ mounted = FALSE
  /\ size = [width |-> 0, height |-> height]
  /\ hoverIndex = Null
  /\ memo = <<>>

\* An instance that is not mounted
NoInstance ==
  [mounted |-> FALSE, params |-> Null, spec |-> Null, loading |-> TRUE,
   error |-> Null, waiting |-> Null]

\* responseCache.get(cacheKey): the entry (request number) or Null
CachedEntry(key) == responseCache[key]

\* Mutant: data is still taken as fresh at the instant of its expiry
hasFreshData_AtExpiry(entry) ==
  /\ entry # Null
  /\ requests[entry].data
  /\ requests[entry].expiresAt # Null
  /\ requests[entry].expiresAt >= now

\* cachedEntry?.data && cachedEntry.expiresAt && cachedEntry.expiresAt > now
hasFreshData(entry) ==
  /\ entry # Null
  /\ requests[entry].data
  /\ requests[entry].expiresAt # Null
  /\ requests[entry].expiresAt > now

\* entry?.expiresAt && entry.expiresAt <= now
isExpired(entry) ==
  /\ entry # Null
  /\ requests[entry].expiresAt # Null
  /\ requests[entry].expiresAt <= now

\* Mutant: an entry whose request is still in flight is not reused
NeedsRequest_IgnorePending(entry) ==
  entry = Null \/ isExpired(entry) \/ ~requests[entry].data

\* if (!entry || isExpired)
NeedsRequest(entry) == entry = Null \/ isExpired(entry)

\* The requests in flight for a key
InFlight(key) ==
  {r \in 1..Len(requests) : requests[r].key = key /\ requests[r].status = "pending"}

CacheInit ==
  /\ ChartIdle
  /\ MeasureIdle
  /\ RestIdle
  /\ now = 0
  /\ responseCache = [key \in CacheKeys |-> Null]
  /\ requests = <<>>
  /\ instances = [i \in InstanceIds |-> NoInstance]

\* One run of the fetch effect of instance i, whose state before the run is
\* inst, with the props params
FetchEffect(i, inst, params) ==
  LET cacheKey == getCacheKey(params)
      cachedEntry == CachedEntry(cacheKey)
  IN  IF hasFreshData(cachedEntry)
      THEN /\ instances' = [instances EXCEPT ![i] =
                 [inst EXCEPT !.mounted = TRUE, !.params = params,
                              !.spec = cachedEntry, !.loading = FALSE,
                              !.error = Null, !.waiting = Null]]
           /\ UNCHANGED <<responseCache, requests>>
      ELSE IF NeedsRequest(cachedEntry)
      THEN LET newEntry == Len(requests) + 1
           IN  /\ Len(requests) < MaxRequests
               /\ requests' = Append(requests,
                    [key |-> cacheKey, params |-> params, status |-> "pending",
                     data |-> FALSE, expiresAt |-> Null])
               /\ responseCache' = [responseCache EXCEPT ![cacheKey] = newEntry]
               /\ instances' = [instances EXCEPT ![i] =
                    [inst EXCEPT !.mounted = TRUE, !.params = params,
                                 !.loading = TRUE, !.error = Null,
                                 !.waiting = newEntry]]
      ELSE /\ instances' = [instances EXCEPT ![i] =
                 [inst EXCEPT !.mounted = TRUE, !.params = params,
                              !.loading = TRUE, !.error = Null,
                              !.waiting = cachedEntry]]
           /\ UNCHANGED <<responseCache, requests>>

\* An instance is mounted with the props params: useState initial values,
\* then the fetch effect
RC_Mount(i, params) ==
  /\ ~instances[i].mounted
  /\ FetchEffect(i, NoInstance, params)
  /\ UNCHANGED now
  /\ UNCHANGED notCache

\* The props of a mounted instance change: the cleanup of the previous
\* effect sets its `cancelled`, then the effect runs again
RC_ChangeParams(i, params) ==
  /\ instances[i].mounted
  /\ params # instances[i].params
  /\ FetchEffect(i, [instances[i] EXCEPT !.waiting = Null], params)
  /\ UNCHANGED now
  /\ UNCHANGED notCache

\* An instance is unmounted: the cleanup sets `cancelled`
RC_Unmount(i) ==
  /\ instances[i].mounted
  /\ instances' = [instances EXCEPT ![i] = NoInstance]
  /\ UNCHANGED <<now, responseCache, requests>>
  /\ UNCHANGED notCache

\* Request r succeeds: the entry gets its data and expiry, and every
\* instance still waiting for the entry's promise shows the spec
RequestResolves(r) ==
  /\ r \in 1..Len(requests)
  /\ requests[r].status = "pending"
  /\ requests' = [requests EXCEPT ![r] =
       [@ EXCEPT !.status = "resolved", !.data = TRUE, !.expiresAt = now + CACHE_TTL]]
  /\ instances' = [i \in InstanceIds |->
       IF instances[i].waiting = r
       THEN [instances[i] EXCEPT !.spec = r, !.loading = FALSE, !.waiting = Null]
       ELSE instances[i]]
  /\ UNCHANGED <<now, responseCache>>
  /\ UNCHANGED notCache

\* Mutant: the entry of a failed request stays in the cache
RequestRejects_KeepsEntry(r) ==
  /\ r \in 1..Len(requests)
  /\ requests[r].status = "pending"
  /\ requests' = [requests EXCEPT ![r] = [@ EXCEPT !.status = "rejected"]]
  /\ instances' = [i \in InstanceIds |->
       IF instances[i].waiting = r
       THEN [instances[i] EXCEPT !.error = r, !.loading = FALSE, !.waiting = Null]
       ELSE instances[i]]
  /\ UNCHANGED <<now, responseCache>>
  /\ UNCHANGED notCache

\* Request r fails: the entry of its key is deleted from the cache, and
\* every instance still waiting for the entry's promise shows the error
RequestRejects(r) ==
  /\ r \in 1..Len(requests)
  /\ requests[r].status = "pending"
  /\ requests' = [requests EXCEPT ![r] = [@ EXCEPT !.status = "rejected"]]
  /\ responseCache' = [responseCache EXCEPT ![requests[r].key] = Null]
  /\ instances' = [i \in InstanceIds |->
       IF instances[i].waiting = r
       THEN [instances[i] EXCEPT !.error = r, !.loading = FALSE, !.waiting = Null]
       ELSE instances[i]]
  /\ UNCHANGED now
  /\ UNCHANGED notCache

\* Time passes
Tick(d) ==
  /\ now + d <= MaxTime
  /\ now' = now + d
  /\ UNCHANGED <<responseCache, requests, instances>>
  /\ UNCHANGED notCache

CacheNext ==
  \/ \E i \in InstanceIds : \E params \in CurveParams : RC_Mount(i, params)
  \/ \E i \in InstanceIds : \E params \in CurveParams : RC_ChangeParams(i, params)
  \/ \E i \in InstanceIds : RC_Unmount(i)
  \/ \E r \in 1..MaxRequests : RequestResolves(r)
  \/ \E r \in 1..MaxRequests : RequestRejects(r)
  \/ \E d \in TickSteps : Tick(d)

CacheSpec == CacheInit /\ [][CacheNext]_vars

\* ------------------------------------------------------------------------
\* MMMResponseCurvesPage and MarketingMixDashboard: data loaded in an effect
\* ------------------------------------------------------------------------
\* The variables the two pages do not touch
notPage == <<chartVars, measureVars, cacheVars, userVars, preloadVars, vegaVars>>

\* The chart, useMeasure and cache variables while other parts are explored
CoreIdle == ChartIdle /\ MeasureIdle /\ CacheIdle

\* Mutant: the cleanup does not set the flag
Cleanup_Noop(reqs) == reqs

\* return () => { cancelled = true }: the cleanup of the latest effect run.
\* Every run of an effect is recorded with the parameter of its call, the
\* status of the call and the `cancelled` flag of the run.
Cleanup(reqs) ==
  [r \in 1..Len(reqs) |->
     IF r = Len(reqs) THEN [reqs[r] EXCEPT !.cancelled = TRUE] ELSE reqs[r]]

\* The useState initial values of both components, before they are mounted;
\* bootstrap is the state of the Promise.all of the dashboard's first effect
PageInit ==
  /\ CoreIdle
  /\ UserIdle /\ PreloadIdle /\ VegaIdle
  /\ curvesPage = [phase |-> "initial", loading |-> TRUE, error |-> Null,
                   channels |-> Null, spendSteps |-> 60]
  /\ curveRequests = <<>>
  /\ dashboard = [phase |-> "initial", initialized |-> FALSE,
                  loadingGeo |-> FALSE, geoItems |-> <<>>, selectedGeo |-> "",
                  geoSeries |-> Null, error |-> Null, bootstrap |-> "idle"]
  /\ geoRequests = <<>>

\* One run of the loadCurves effect, on mount (with the initial spendSteps)
\* or after setSpendSteps(n) of the slider: the cleanup of the previous run,
\* then setLoading(true) and the call getMMMResponseCurves({ spendSteps })
loadCurves(n) ==
  /\ \/ curvesPage.phase = "initial" /\ n = curvesPage.spendSteps
     \/ curvesPage.phase = "mounted" /\ n # curvesPage.spendSteps
  /\ Len(curveRequests) < MaxRequests
  /\ curveRequests' = Append(Cleanup(curveRequests),
                             [param |-> n, status |-> "pending", cancelled |-> FALSE])
  /\ curvesPage' = [curvesPage EXCEPT !.phase = "mounted", !.spendSteps = n,
                                      !.loading = TRUE]
  /\ UNCHANGED <<dashboard, geoRequests>>
  /\ UNCHANGED notPage

RCP_Unmount ==
  /\ curvesPage.phase = "mounted"
  /\ curvesPage' = [curvesPage EXCEPT !.phase = "unmounted"]
  /\ curveRequests' = Cleanup(curveRequests)
  /\ UNCHANGED <<dashboard, geoRequests>>
  /\ UNCHANGED notPage

\* The call of run r returns (setChannels, setError(null)) or throws
\* (setError(message)), then setLoading(false); nothing is written when
\* the run has been cancelled
loadCurves_Settles(r, status) ==
  /\ r \in 1..Len(curveRequests)
  /\ curveRequests[r].status = "pending"
  /\ curveRequests' = [curveRequests EXCEPT ![r].status = status]
  /\ curvesPage' =
       IF curveRequests[r].cancelled THEN curvesPage
       ELSE IF status = "resolved"
       THEN [curvesPage EXCEPT !.channels = r, !.error = Null, !.loading = FALSE]
       ELSE [curvesPage EXCEPT !.error = r, !.loading = FALSE]
  /\ UNCHANGED <<dashboard, geoRequests>>
  /\ UNCHANGED notPage

\* What MarketingMixDashboard returns
MMD_View(d) ==
  IF d.error # Null THEN [page |-> "error", message |-> d.error]
  ELSE IF ~d.initialized THEN [page |-> "skeleton"]
  ELSE [page |-> "dashboard",
        summaryCards |-> "rendered",
        geoPanel |-> IF d.loadingGeo THEN "skeleton" ELSE "charts",
        nationalPanel |-> "rendered",
        channelPanel |-> "rendered"]

\* One run of the loadGeo effect of the dashboard state d (selectedGeo has
\* changed): the cleanup of the previous run, then nothing for the empty
\* geo, else setLoadingGeo(true) and the call getGeoSeries(selectedGeo)
loadGeo(d) ==
  IF d.selectedGeo = ""
  THEN /\ dashboard' = d
       /\ geoRequests' = Cleanup(geoRequests)
  ELSE /\ Len(geoRequests) < MaxRequests
       /\ geoRequests' = Append(Cleanup(geoRequests),
            [param |-> d.selectedGeo, status |-> "pending", cancelled |-> FALSE])
       /\ dashboard' = [d EXCEPT !.loadingGeo = TRUE]

\* Mount: the bootstrap effect starts its four calls; the loadGeo effect
\* returns at once for selectedGeo = ""
MMD_Mount ==
  /\ dashboard.phase = "initial"
  /\ dashboard' = [dashboard EXCEPT !.phase = "mounted", !.bootstrap = "pending"]
  /\ UNCHANGED <<geoRequests, curvesPage, curveRequests>>
  /\ UNCHANGED notPage

\* Promise.all of bootstrap is fulfilled with the geo list geos, or one of
\* the four calls fails (its message is written as 0, the message of the
\* geo call of run r as r); nothing is written after unmount
bootstrap_Settles(status, geos) ==
  /\ dashboard.bootstrap = "pending"
  /\ IF dashboard.phase = "unmounted"
     THEN /\ dashboard' = [dashboard EXCEPT !.bootstrap = "settled"]
          /\ UNCHANGED geoRequests
     ELSE IF status = "rejected"
     THEN /\ dashboard' = [dashboard EXCEPT !.bootstrap = "settled", !.error = 0]
          /\ UNCHANGED geoRequests
     ELSE LET d == [dashboard EXCEPT
                      !.bootstrap = "settled", !.geoItems = geos,
                      !.selectedGeo = IF Len(geos) > 0 THEN geos[1] ELSE @,
                      !.initialized = TRUE]
          IN  IF d.selectedGeo # dashboard.selectedGeo
              THEN loadGeo(d)
              ELSE dashboard' = d /\ UNCHANGED geoRequests
  /\ UNCHANGED <<curvesPage, curveRequests>>
  /\ UNCHANGED notPage

\* onChange of the geo <select>, which is part of the rendered dashboard
MMD_setSelectedGeo(g) ==
  /\ dashboard.phase = "mounted"
  /\ MMD_View(dashboard).page = "dashboard"
  /\ \E k \in 1..Len(dashboard.geoItems) : dashboard.geoItems[k] = g
  /\ g # dashboard.selectedGeo
  /\ loadGeo([dashboard EXCEPT !.selectedGeo = g])
  /\ UNCHANGED <<curvesPage, curveRequests>>
  /\ UNCHANGED notPage

MMD_Unmount ==
  /\ dashboard.phase = "mounted"
  /\ dashboard' = [dashboard EXCEPT !.phase = "unmounted"]
  /\ geoRequests' = Cleanup(geoRequests)
  /\ UNCHANGED <<curvesPage, curveRequests>>
  /\ UNCHANGED notPage

\* getGeoSeries of run r returns (setGeoSeries) or throws
\* (setError(message)), then setLoadingGeo(false); nothing is written when
\* the run has been cancelled
loadGeo_Settles(r, status) ==
  /\ r \in 1..Len(geoRequests)
  /\ geoRequests[r].status = "pending"
  /\ geoRequests' = [geoRequests EXCEPT ![r].status = status]
  /\ dashboard' =
       IF geoRequests[r].cancelled THEN dashboard
       ELSE IF status = "resolved"
       THEN [dashboard EXCEPT !.geoSeries = r, !.loadingGeo = FALSE]
       ELSE [dashboard EXCEPT !.error = r, !.loadingGeo = FALSE]
  /\ UNCHANGED <<curvesPage, curveRequests>>
  /\ UNCHANGED notPage

\* Slider values 50, 60, 70 (useState(60)); getGeoIndex returns no geo or two
PageNext ==
  \/ \E n \in {50, 60, 70} : loadCurves(n)
  \/ RCP_Unmount
  \/ \E r \in 1..MaxRequests : \E status \in {"resolved", "rejected"} :
       loadCurves_Settles(r, status)
  \/ MMD_Mount
  \/ \E status \in {"resolved", "rejected"} :
       \E geos \in {<<>>, <<"geo_1", "geo_2">>} : bootstrap_Settles(status, geos)
  \/ \E g \in {"geo_1", "geo_2"} : MMD_setSelectedGeo(g)
  \/ MMD_Unmount
  \/ \E r \in 1..MaxRequests : \E status \in {"resolved", "rejected"} :
       loadGeo_Settles(r, status)

PageSpec == PageInit /\ [][PageNext]_vars

\* ------------------------------------------------------------------------
\* useUserSync and the route handler GET /api/me
\* ------------------------------------------------------------------------
\* The variables the hook and the route handler do not touch
notUser == <<chartVars, measureVars, cacheVars, pageVars, preloadVars, vegaVars>>

\* useState initial values of the hook (JavaScript null is written "null")
UserInit ==
  /\ CoreIdle
  /\ PageIdle /\ PreloadIdle /\ VegaIdle
  /\ UserIdle

\* new Response(body, { status }): the constructor throws a TypeError for a
\* non-null body (the empty string included) with a null body status, and
\* the framework answers a handler that threw with its own 500
NewResponse(body, status) ==
  IF status \in {101, 103, 204, 205, 304}
  THEN [status |-> 500, body |-> "Internal Server Error"]
  ELSE [status |-> status, body |-> body]

\* fetchUserData up to its await, called by the mount effect and by refetch:
\* setLoading(true), setError(null), fetch('/api/me')
fetchUserData ==
  /\ Len(meFetches) < MaxRequests
  /\ userSync' = [userSync EXCEPT !.loading = TRUE, !.error = "null"]
  /\ meFetches' = Append(meFetches,
       [stage |-> "sent", token |-> "", backend |-> <<>>, response |-> <<>>])
  /\ UNCHANGED backendCalls
  /\ UNCHANGED notUser

\* GET up to the backend call: without a token (getToken gave null, written
\* "") it answers 401, else it sends the request to the backend
GET_getToken(f, token) ==
  /\ f \in 1..Len(meFetches)
  /\ meFetches[f].stage = "sent"
  /\ IF token = ""
     THEN /\ meFetches' = [meFetches EXCEPT ![f] =
                [@ EXCEPT !.stage = "responded",
                          !.response = [status |-> 401, body |-> "{\"error\":\"Unauthorized\"}"]]]
          /\ UNCHANGED backendCalls
     ELSE /\ meFetches' = [meFetches EXCEPT ![f] =
                [@ EXCEPT !.stage = "backend", !.token = token]]
          /\ backendCalls' = Append(backendCalls,
                [fetch |-> f, path |-> "/me",
                 Authorization |-> <<"Bearer", token>>])
  /\ UNCHANGED userSync
  /\ UNCHANGED notUser

\* GET after the backend has answered with status and body
GET_relay(f, status, body) ==
  /\ f \in 1..Len(meFetches)
  /\ meFetches[f].stage = "backend"
  /\ meFetches' = [meFetches EXCEPT ![f] =
       [@ EXCEPT !.stage = "responded",
                 !.backend = [status |-> status, body |-> body],
                 !.response = NewResponse(body, status)]]
  /\ UNCHANGED <<userSync, backendCalls>>
  /\ UNCHANGED notUser

\* What fetchUserData writes for a response of the route: the user data of
\* a 2xx response whose body is JSON, else the message of the error thrown
Outcome(response) ==
  IF response.status \notin 200..299
  THEN [userData |-> "unchanged",
        error |-> IF response.status = 401
                  THEN "Unauthorized - please sign in again"
                  ELSE "Failed to fetch user data: " \o ToString(response.status)]
  ELSE IF response.body = ""
  THEN [userData |-> "unchanged", error |-> "Unexpected end of JSON input"]
  ELSE [userData |-> response.body, error |-> "unchanged"]

\* fetchUserData after its await, for the response of fetch f: setUserData
\* or setError, then setLoading(false)
fetchUserData_Settles(f) ==
  /\ f \in 1..Len(meFetches)
  /\ meFetches[f].stage = "responded"
  /\ meFetches' = [meFetches EXCEPT ![f].stage = "settled"]
  /\ LET o == Outcome(meFetches[f].response)
     IN  userSync' =
           [userData |-> IF o.userData = "unchanged" THEN userSync.userData ELSE o.userData,
            error |-> IF o.error = "unchanged" THEN userSync.error ELSE o.error,
            loading |-> FALSE]
  /\ UNCHANGED backendCalls
  /\ UNCHANGED notUser

\* The identity provider yields no token or a token; the backend
\* answers with user data, with no content, or with an error
UserNext ==
  \/ fetchUserData
  \/ \E f \in 1..MaxRequests : \E token \in {"", "jwt_1"} :
       GET_getToken(f, token)
  \/ \E f \in 1..MaxRequests :
       \E answer \in {<<200, "{\"user_id\":\"u1\"}">>, <<204, "">>, <<401, "{\"detail\":\"Invalid token\"}">>,
                      <<500, "Internal error">>} :
         GET_relay(f, answer[1], answer[2])
  \/ \E f \in 1..MaxRequests : fetchUserData_Settles(f)

UserSpec == UserInit /\ [][UserNext]_vars

\* ------------------------------------------------------------------------
\* preloadMMMData
\* ------------------------------------------------------------------------
\* Bound: the calls of preloadMMMData followed
MaxCalls == 5

\* The variables preloadMMMData does not touch
notPreload == <<chartVars, measureVars, cacheVars, pageVars, userVars, vegaVars>>

\* let preloadPromise: Promise<void> | null = null
PreloadInit ==
  /\ CoreIdle
  /\ PageIdle /\ UserIdle /\ VegaIdle
  /\ PreloadIdle

\* A call of preloadMMMData: it returns the stored promise, or starts the
\* async function (which sends the model preload request before its first
\* await), stores its promise and returns it
preloadMMMData ==
  /\ Len(preloadCalls) < MaxCalls
  /\ IF preloadPromise # Null
     THEN /\ preloadCalls' = Append(preloadCalls, preloadPromise)
          /\ UNCHANGED <<preloadPromise, preloads>>
     ELSE /\ preloads' = Append(preloads,
               [promise |-> "pending", awaiting |-> "preloadMMMModel",
                sent |-> <<"POST /mmm/preload">>])
          /\ preloadPromise' = Len(preloads) + 1
          /\ preloadCalls' = Append(preloadCalls, Len(preloads) + 1)
  /\ UNCHANGED notPreload

\* Mutant: the catch block leaves the stored promise as it is
preload_Continues_NoReset(p, ok) ==
  /\ p \in 1..Len(preloads)
  /\ preloads[p].promise = "pending"
  /\ IF ~ok
     THEN /\ preloads' = [preloads EXCEPT ![p] =
               [@ EXCEPT !.promise = "fulfilled", !.awaiting = "failed"]]
          /\ UNCHANGED preloadPromise
     ELSE IF preloads[p].awaiting = "preloadMMMModel"
     THEN /\ preloads' = [preloads EXCEPT ![p] =
               [@ EXCEPT !.awaiting = "getMMMResponseCurves",
                         !.sent = Append(@, "GET /mmm/response-curves?spend_steps=50")]]
          /\ UNCHANGED preloadPromise
     ELSE /\ preloads' = [preloads EXCEPT ![p] =
               [@ EXCEPT !.promise = "fulfilled", !.awaiting = "done"]]
          /\ UNCHANGED preloadPromise
  /\ UNCHANGED preloadCalls
  /\ UNCHANGED notPreload

\* The request the async function of promise p awaits returns (ok) or
\* throws: after the model preload the response-curves request is sent,
\* after the response curves the function returns, and the catch block
\* resets the stored promise and returns as well
preload_Continues(p, ok) ==
  /\ p \in 1..Len(preloads)
  /\ preloads[p].promise = "pending"
  /\ IF ~ok
     THEN /\ preloads' = [preloads EXCEPT ![p] =
               [@ EXCEPT !.promise = "fulfilled", !.awaiting = "failed"]]
          /\ preloadPromise' = Null
     ELSE IF preloads[p].awaiting = "preloadMMMModel"
     THEN /\ preloads' = [preloads EXCEPT ![p] =
               [@ EXCEPT !.awaiting = "getMMMResponseCurves",
                         !.sent = Append(@, "GET /mmm/response-curves?spend_steps=50")]]
          /\ UNCHANGED preloadPromise
     ELSE /\ preloads' = [preloads EXCEPT ![p] =
               [@ EXCEPT !.promise = "fulfilled", !.awaiting = "done"]]
          /\ UNCHANGED preloadPromise
  /\ UNCHANGED preloadCalls
  /\ UNCHANGED notPreload

PreloadNext ==
  \/ preloadMMMData
  \/ \E p \in 1..MaxCalls : \E ok \in BOOLEAN : preload_Continues(p, ok)

PreloadSpec == PreloadInit /\ [][PreloadNext]_vars

\* ------------------------------------------------------------------------
\* The render effect of a MeridianResponseCurves instance (vega-embed)
\* ------------------------------------------------------------------------
\* chartInstance.spec is the identity of the spec object in state (Null
\* before the first response), container whether containerRef.current holds
\* the <div> (it is rendered only while neither loading nor error is
\* shown), viewRef the view in viewRef.current.  renders[k] is run k of the
\* effect that called vega-embed's import: its `disposed` flag and where
\* its renderChart stands.  vegaViews[v] counts the finalize() calls on
\* view v.
\* The variables the render effect does not touch
notVega == <<chartVars, measureVars, cacheVars, pageVars, userVars, preloadVars>>

\* useState(null), useRef(null), before the component is mounted
VegaInit ==
  /\ CoreIdle
  /\ PageIdle /\ UserIdle /\ PreloadIdle
  /\ VegaIdle

\* Mutant: finalize() is not called
Finalize_Noop(vs, v) == vs

\* if (viewRef.current) viewRef.current.finalize()
Finalize(vs, v) ==
  IF v = Null THEN vs ELSE [vs EXCEPT ![v].finalized = @ + 1]

\* disposed = true in the cleanup of the latest run of the effect
Dispose(rs) ==
  [k \in 1..Len(rs) |->
     IF k = Len(rs) THEN [rs[k] EXCEPT !.disposed = TRUE] ELSE rs[k]]

\* Mount: the effect runs with spec = null and renderChart returns at once
VG_Mount ==
  /\ chartInstance.phase = "initial"
  /\ chartInstance' = [chartInstance EXCEPT !.phase = "mounted"]
  /\ UNCHANGED <<renders, vegaViews>>
  /\ UNCHANGED notVega

\* setSpec(s) with setLoading(false), from a response or from the cache:
\* the container is rendered; when the spec object is another one the
\* cleanup of the previous run and a new run of the effect follow, and
\* renderChart starts the import of vega-embed
VG_setSpec(s) ==
  /\ chartInstance.phase = "mounted"
  /\ IF s = chartInstance.spec
     THEN /\ chartInstance' = [chartInstance EXCEPT !.container = TRUE]
          /\ UNCHANGED <<renders, vegaViews>>
     ELSE /\ Len(renders) < MaxRequests
          /\ vegaViews' = Finalize(vegaViews, chartInstance.viewRef)
          /\ renders' = Append(Dispose(renders),
               [spec |-> s, disposed |-> FALSE, at |-> "import"])
          /\ chartInstance' = [chartInstance EXCEPT !.spec = s, !.container = TRUE,
                                                    !.viewRef = Null]
  /\ UNCHANGED notVega

\* setLoading(true) of the fetch effect, or setError: the loading or error
\* box replaces the container, the spec in state stays
VG_hideContainer ==
  /\ chartInstance.phase = "mounted"
  /\ chartInstance.container
  /\ chartInstance' = [chartInstance EXCEPT !.container = FALSE]
  /\ UNCHANGED <<renders, vegaViews>>
  /\ UNCHANGED notVega

\* The import of run k completes: return when disposed or without
\* container; else finalize the view held, clear the container and call
\* vega-embed
VG_imported(k) ==
  /\ k \in 1..Len(renders)
  /\ renders[k].at = "import"
  /\ IF renders[k].disposed \/ ~chartInstance.container
     THEN /\ renders' = [renders EXCEPT ![k].at = "done"]
          /\ UNCHANGED <<chartInstance, vegaViews>>
     ELSE /\ renders' = [renders EXCEPT ![k].at = "embed"]
          /\ vegaViews' = Finalize(vegaViews, chartInstance.viewRef)
          /\ chartInstance' = [chartInstance EXCEPT !.viewRef = Null]
  /\ UNCHANGED notVega

\* The embed call of run k completes with a new view, which is stored
\* unless the run is disposed and finalized if it is; or it throws
VG_embedded(k, ok) ==
  /\ k \in 1..Len(renders)
  /\ renders[k].at = "embed"
  /\ renders' = [renders EXCEPT ![k].at = "done"]
  /\ IF ~ok
     THEN UNCHANGED <<chartInstance, vegaViews>>
     ELSE LET result == Len(vegaViews) + 1
              created == Append(vegaViews, [render |-> k, finalized |-> 0])
          IN  IF ~renders[k].disposed
              THEN /\ chartInstance' = [chartInstance EXCEPT !.viewRef = result]
                   /\ vegaViews' = created
              ELSE /\ vegaViews' = Finalize(created, result)
                   /\ UNCHANGED chartInstance
  /\ UNCHANGED notVega

\* Unmount: the cleanup of the latest run sets disposed, finalizes the view
\* held and sets viewRef.current = null
VG_Unmount ==
  /\ chartInstance.phase = "mounted"
  /\ renders' = Dispose(renders)
  /\ vegaViews' = Finalize(vegaViews, chartInstance.viewRef)
  /\ chartInstance' = [chartInstance EXCEPT !.phase = "unmounted",
                                            !.container = FALSE, !.viewRef = Null]
  /\ UNCHANGED notVega

\* Two spec objects (two cache entries) are followed
VegaNext ==
  \/ VG_Mount
  \/ \E s \in {1, 2} : VG_setSpec(s)
  \/ VG_hideContainer
  \/ \E k \in 1..MaxRequests : VG_imported(k)
  \/ \E k \in 1..MaxRequests : \E ok \in BOOLEAN : VG_embedded(k, ok)
  \/ VG_Unmount

VegaSpec == VegaInit /\ [][VegaNext]_vars

\* ------------------------------------------------------------------------
\* Properties
\* ------------------------------------------------------------------------
Dist(a, b) == RAbs(RSub(a, b))

\* i (0-based) is the smallest index that minimises |xs[i] - p|
IsNearestLowest(xs, p, i) ==
  /\ i \in 0..(Len(xs) - 1)
  /\ \A j \in 0..(Len(xs) - 1) :
       /\ RLeq(Dist(xs[i + 1], p), Dist(xs[j + 1], p))
       /\ (j < i => RLess(Dist(xs[i + 1], p), Dist(xs[j + 1], p)))

\* p is equally near to the points at the distinct indices i < j, and no
\* point is nearer
IsTie(xs, p, i, j) ==
  /\ i < j
  /\ xs[i + 1] # xs[j + 1]
  /\ Dist(xs[i + 1], p) = Dist(xs[j + 1], p)
  /\ \A k \in 1..Len(xs) : RLeq(Dist(xs[i + 1], p), Dist(xs[k], p))

TS_Mounted == mounted /\ variant = "TimeSeries"
MMM_Mounted == mounted /\ variant = "Contribution"

TS_Pointers == PointerXs(TS_xs(memo), TS_rectX, TS_rectWidth(size.width))
MMM_Pointers ==
  PointerXs(MMM_xs(memo, size.width), MMM_rectX, MMM_rectWidth(size.width))

\* C1: whenever handleMouseMove of the time-series chart or of the stacked
\* contribution chart runs over a non-empty array of scaled points with the
\* pointer x value p = clientX - bounds.left, the hover index it sets is the
\* smallest index i minimising |points[i].x - p| (the lower index on a tie).
C1_HitTestNearestLowest ==
  [][/\ (TS_Mounted /\ Len(memo.points) > 0) =>
          \A svgLeft \in SvgLefts : \A cx \in TS_Pointers :
            TS_handleMouseMove(cx, svgLeft) =>
              IsNearestLowest(TS_xs(memo), PointerX(cx, svgLeft, TS_rectX), hoverIndex')
     /\ (MMM_Mounted /\ Len(memo.stacked) > 0) =>
          \A svgLeft \in SvgLefts : \A cx \in MMM_Pointers :
            MMM_handleMouseMove(cx, svgLeft) =>
              IsNearestLowest(MMM_xs(memo, size.width),
                              PointerX(cx, svgLeft, MMM_rectX), hoverIndex')
    ]_vars

\* C1 witness: the time-series chart hovers the point the hit-tester
\* returns for a pointer that is equally near to it and to a later point
C1_Witness ==
  /\ TS_Mounted
  /\ hoverIndex # Null
  /\ \E cx \in TS_Pointers : \E j \in 0..(Len(memo.points) - 1) :
       LET p == PointerX(cx, 16, TS_rectX)
       IN  /\ IsTie(TS_xs(memo), p, hoverIndex, j)
           /\ ClosestIndex(TS_xs(memo), p) = hoverIndex

\* C2 (as claimed): a pointer-move with the pointer exactly at the chart
\* x-coordinate of data point i, no other point being equally near, sets
\* the hover index to i.
C2_PointerAtPointSelectsIt ==
  [][/\ (TS_Mounted /\ Len(memo.points) > 0) =>
          \A svgLeft \in SvgLefts : \A cx \in TS_Pointers :
            \A i \in 0..(Len(memo.points) - 1) :
              (/\ TS_handleMouseMove(cx, svgLeft)
               /\ cx = memo.points[i + 1].x
               /\ \A j \in 0..(Len(memo.points) - 1) :
                    j # i => memo.points[j + 1].x # cx)
              => hoverIndex' = i
     /\ (MMM_Mounted /\ Len(memo.stacked) > 0) =>
          \A svgLeft \in SvgLefts : \A cx \in MMM_Pointers :
            \A i \in 0..(Len(memo.stacked) - 1) :
              (/\ MMM_handleMouseMove(cx, svgLeft)
               /\ cx = MMM_xs(memo, size.width)[i + 1]
               /\ \A j \in 0..(Len(memo.stacked) - 1) :
                    j # i => MMM_xs(memo, size.width)[j + 1] # cx)
              => hoverIndex' = i
    ]_vars

\* Number of data marks that can be hovered in the mounted chart
HoverCount ==
  CASE variant = "TimeSeries" -> Len(memo.points)
    [] variant = "Contribution" -> Len(memo.stacked)
    [] variant = "Bar" -> Len(memo.bars)
    [] OTHER -> 0

IsPointerMove ==
  \/ (TS_Mounted /\ \E svgLeft \in SvgLefts : \E cx \in TS_Pointers :
        TS_handleMouseMove(cx, svgLeft))
  \/ (MMM_Mounted /\ \E svgLeft \in SvgLefts : \E cx \in MMM_Pointers :
        MMM_handleMouseMove(cx, svgLeft))
  \/ \E index \in 0..MaxPoints : Bar_onMouseEnter(index)

IsPointerLeave == TS_onMouseLeave \/ MMM_onMouseLeave \/ Bar_onMouseLeave

\* C3: the hover index is null initially and after every pointer-leave;
\* after a pointer-move over N >= 1 points it is an index in 0..N-1; a
\* pointer-move over zero points leaves it null; and no step other than a
\* pointer-move or a pointer-leave changes it.
C3_HoverStateMachine ==
  /\ hoverIndex = Null
  /\ [][/\ IsPointerLeave => hoverIndex' = Null
        /\ IsPointerMove =>
             IF HoverCount >= 1 THEN hoverIndex' \in 0..(HoverCount - 1)
             ELSE hoverIndex' = Null
        /\ hoverIndex' # hoverIndex => (IsPointerMove \/ IsPointerLeave)
       ]_vars

\* C3 witness: a chart is hovering one of its N >= 1 points after a resize
C3_Witness ==
  /\ mounted
  /\ HoverCount >= 1
  /\ hoverIndex \in 0..(HoverCount - 1)
  /\ size.width > 0

\* data[i] attains the minimum / maximum of the field f over the data
IsMinAt(xs, i) == \A j \in 1..Len(xs) : xs[i] <= xs[j]
IsMaxAt(xs, i) == \A j \in 1..Len(xs) : xs[i] >= xs[j]
HasSpread(xs) == \E i, j \in 1..Len(xs) : xs[i] < xs[j]

\* The scaled coordinate c of the domain value xs[i] lies on the line from
\* (domain minimum, start) to (domain maximum, end)
OnLine(xs, i, c, start, end) ==
  \A lo, hi \in 1..Len(xs) :
    (IsMinAt(xs, lo) /\ IsMaxAt(xs, hi)) =>
      RMul(RSub(c, R(start)), R(xs[hi] - xs[lo]))
        = R((xs[i] - xs[lo]) * (end - start))

ScaleEndpoints(xs, cs, start, end) ==
  HasSpread(xs) =>
    \A i \in 1..Len(xs) :
      /\ IsMinAt(xs, i) => cs[i] = R(start)
      /\ IsMaxAt(xs, i) => cs[i] = R(end)
      /\ OnLine(xs, i, cs[i], start, end)

TS_times == [i \in 1..Len(data) |-> DateParse(data[i].time)]
TS_values == [i \in 1..Len(data) |-> data[i].value]
TS_ys(m) == [i \in 1..Len(m.points) |-> m.points[i].y]
SC_dataXs == [i \in 1..Len(data) |-> data[i].x]
SC_dataYs == [i \in 1..Len(data) |-> data[i].y]
SC_cxs(m) == [i \in 1..Len(m.points) |-> m.points[i].cx]
SC_cys(m) == [i \in 1..Len(m.points) |-> m.points[i].cy]
SC_Mounted == mounted /\ variant = "Scatter"

\* C4: in the time-series and scatter charts, on an axis whose domain has
\* max > min, the domain minimum is mapped exactly to the start of the
\* pixel range and the maximum exactly to its end (x: PADDING.left and
\* chartWidth - PADDING.right; y: PADDING.top + innerHeight and
\* PADDING.top), and every value in between is linearly interpolated.
C4_ScaleEndpoints ==
  /\ (TS_Mounted /\ Len(data) > 0) =>
       /\ Len(memo.points) = Len(data)
       /\ ScaleEndpoints(TS_times, TS_xs(memo), TS_PADDING.left,
                         TS_chartWidth(size.width) - TS_PADDING.right)
       /\ ScaleEndpoints(TS_values, TS_ys(memo),
                         TS_PADDING.top + TS_innerHeight(height), TS_PADDING.top)
  /\ (SC_Mounted /\ Len(data) > 0) =>
       /\ Len(memo.points) = Len(data)
       /\ ScaleEndpoints(SC_dataXs, SC_cxs(memo), SC_PADDING.left,
                         SC_chartWidth(size.width) - SC_PADDING.right)
       /\ ScaleEndpoints(SC_dataYs, SC_cys(memo),
                         SC_PADDING.top + SC_innerHeight(height), SC_PADDING.top)

\* C4 witness: two points a fortnight apart at width 320 are drawn at
\* x = 48 and x = 296, a third one in between
C4_Witness ==
  /\ TS_Mounted
  /\ size.width = 320
  /\ Len(data) = 3
  /\ HasSpread(TS_values)
  /\ memo.points[1].x = R(48)
  /\ memo.points[3].x = R(296)
  /\ RLess(R(48), memo.points[2].x) /\ RLess(memo.points[2].x, R(296))

\* Every coordinate of cs is the midpoint of [start, end] and a finite number
AllAtMidpoint(cs, start, end) ==
  \A i \in 1..Len(cs) :
    /\ cs[i].d > 0
    /\ RMul(cs[i], R(2)) = R(start + end)

\* C5: in the time-series and scatter charts, on an axis whose domain has
\* max = min (a single point or a flat series) the scale returns the
\* midpoint (rangeStart + rangeEnd) / 2 of its pixel range for every value,
\* and no coordinate is the result of a division by zero.
C5_DegenerateMidpoint ==
  /\ (TS_Mounted /\ Len(data) > 0) =>
       /\ ~HasSpread(TS_times) =>
            AllAtMidpoint(TS_xs(memo), TS_PADDING.left,
                          TS_PADDING.left + TS_innerWidth(size.width))
       /\ ~HasSpread(TS_values) =>
            AllAtMidpoint(TS_ys(memo), TS_PADDING.top + TS_innerHeight(height),
                          TS_PADDING.top)
       /\ \A i \in 1..Len(memo.points) :
            memo.points[i].x.d > 0 /\ memo.points[i].y.d > 0
  /\ (SC_Mounted /\ Len(data) > 0) =>
       /\ ~HasSpread(SC_dataXs) =>
            AllAtMidpoint(SC_cxs(memo), SC_PADDING.left,
                          SC_PADDING.left + SC_innerWidth(size.width))
       /\ ~HasSpread(SC_dataYs) =>
            AllAtMidpoint(SC_cys(memo), SC_PADDING.top + SC_innerHeight(height),
                          SC_PADDING.top)
       /\ \A i \in 1..Len(memo.points) :
            memo.points[i].cx.d > 0 /\ memo.points[i].cy.d > 0

\* C5 witness: a scatter chart of several points that share one x but not
\* one y, measured at width 400: all are drawn at x = 56 + 312 / 2
C5_Witness ==
  /\ SC_Mounted
  /\ size.width = 400
  /\ Len(data) >= 2
  /\ ~HasSpread(SC_dataXs)
  /\ HasSpread(SC_dataYs)
  /\ \A i \in 1..Len(memo.points) : memo.points[i].cx = R(212)

RC_Mounted == mounted /\ variant = "Curve"

\* The path string s is the commands cmds separated by single spaces
IsSpaced(s, cmds) ==
  /\ Len(s) = IF Len(cmds) = 0 THEN 0 ELSE 2 * Len(cmds) - 1
  /\ \A k \in 1..Len(cmds) : s[2 * k - 1] = cmds[k]
  /\ \A k \in 1..(Len(cmds) - 1) : s[2 * k] = SP

\* The path string s is one command per coordinate pair of xs/ys, in their
\* order: an "M" at the first and an "L" at each of the others
IsPolyline(s, xs, ys) ==
  LET cmds == Commands(s)
  IN  /\ Len(cmds) = Len(xs)
      /\ \A k \in 1..Len(xs) :
           /\ cmds[k].cmd = (IF k = 1 THEN "M" ELSE "L")
           /\ cmds[k].x = xs[k]
           /\ cmds[k].y = ys[k]
      /\ IsSpaced(s, cmds)

\* The scaled coordinates of the k-th input point of the time-series chart
TS_inputX(k) ==
  TS_xScale(TS_times[k], MinOf(TS_times), MaxOf(TS_times), TS_innerWidth(size.width))
TS_inputY(k) ==
  TS_yScale(TS_values[k], MinOf(TS_values), MaxOf(TS_values), TS_innerHeight(height))
RC_inputX(k) == RC_xScale(data.points[k].spend, memo.maxSpend)
RC_inputY(k) == RC_yScale(data.points[k].mean, memo.maxLift)

\* C6: for N >= 2 points the line path (time-series chart, response curve)
\* has exactly N commands, an 'M' at point 0 and an 'L' at each of the
\* others, the k-th carrying the coordinates of the k-th input point: input
\* order is kept even when the timestamps are not ascending.
C6_LinePathInInputOrder ==
  /\ (TS_Mounted /\ Len(data) >= 2) =>
       IsPolyline(memo.linePath,
                  [k \in 1..Len(data) |-> TS_inputX(k)],
                  [k \in 1..Len(data) |-> TS_inputY(k)])
  /\ (RC_Mounted /\ Len(data.points) >= 2) =>
       IsPolyline(memo.linePath,
                  [k \in 1..Len(data.points) |-> RC_inputX(k)],
                  [k \in 1..Len(data.points) |-> RC_inputY(k)])

\* C6 witness: a time-series chart of three points whose timestamps are
\* not in ascending order
C6_Witness ==
  /\ TS_Mounted
  /\ Len(data) = 3
  /\ TS_times[1] > TS_times[2]
  /\ TS_times[2] < TS_times[3]
  /\ Len(Commands(memo.linePath)) = 3

TS_baseline == R(TS_PADDING.top + TS_innerHeight(height))

\* C7: when filling is requested and there are points, the area path is
\* the line path followed by a line-to at (x of the last point, baseline),
\* a line-to at (x of the first point, baseline) and a close command, with
\* baseline = PADDING.top + innerHeight; without filling it is empty.
C7_AreaPathStructure ==
  TS_Mounted =>
    /\ (showArea /\ Len(memo.points) > 0) =>
         memo.areaPath =
           memo.linePath
           \o <<SP, Cmd("L", memo.points[Len(memo.points)].x, TS_baseline)>>
           \o <<SP, Cmd("L", memo.points[1].x, TS_baseline)>>
           \o <<SP, ZZ>>
    /\ ~showArea => memo.areaPath = <<>>

\* C7 witness: a filled time-series chart whose first and last point differ
\* in x
C7_Witness ==
  /\ TS_Mounted
  /\ showArea
  /\ Len(memo.points) = 3
  /\ memo.points[1].x # memo.points[3].x
  /\ memo.areaPath # <<>>

EndsWithClose(s) == Len(s) > 0 /\ s[Len(s)] = ZZ

\* C8 (as claimed): for every N input points with filling requested, the
\* area path ends with a close instruction and has exactly 2N + 2
\* coordinate pairs.  Stated for the inputs for which an area path is
\* generated at all (N >= 1).
C8_AreaPathPairs_Claimed ==
  (TS_Mounted /\ showArea /\ Len(data) >= 1) =>
    /\ EndsWithClose(memo.areaPath)
    /\ CoordPairs(memo.areaPath) = 2 * Len(data) + 2

\* C8 (amended): for every N >= 1 input points with filling requested, the
\* area path ends with a close instruction and has exactly N + 2
\* coordinate pairs (the N points of the line and the two baseline corners).
C8_AreaPathPairs ==
  (TS_Mounted /\ showArea /\ Len(data) >= 1) =>
    /\ EndsWithClose(memo.areaPath)
    /\ CoordPairs(memo.areaPath) = Len(data) + 2

\* C8 witness: a filled time-series chart of at least two points, measured
\* at width 400
C8_Witness ==
  /\ TS_Mounted
  /\ showArea
  /\ size.width = 400
  /\ Len(data) >= 2
  /\ CoordPairs(memo.areaPath) = Len(data) + 2

\* Number of input points of the mounted chart
InputCount ==
  IF variant = "Curve" THEN Len(data.points) ELSE Len(data)

\* C9 (as claimed): for an input of 0 points or of exactly 1 point every
\* path builder yields the empty string.
C9_DegenerateInputEmpty_Claimed ==
  (mounted /\ InputCount <= 1) =>
    /\ variant = "TimeSeries" => (memo.linePath = <<>> /\ memo.areaPath = <<>>)
    /\ variant = "Curve" => (memo.linePath = <<>> /\ memo.areaPath = <<>>)
    /\ variant = "Contribution" =>
         \A k \in 1..Len(memo.paths) : memo.paths[k].path = <<>>

\* A closed outline: it starts with a move, ends with the close command
\* and has `pairs` coordinate pairs
IsClosedOutline(s, pairs) ==
  /\ Len(s) > 0
  /\ s[1].cmd = "M"
  /\ EndsWithClose(s)
  /\ CoordPairs(s) = pairs

\* C9 (amended): for an input of 0 points every path builder yields the
\* empty string (the stacked contribution chart builds no layer path at
\* all); for exactly 1 point the paths are not empty: the time-series and
\* response-curve line paths are the single command 'M' at that point, and
\* the area path (when filling is requested), the confidence-band path and
\* every layer path are closed outlines that start with an 'M'.
C9_DegenerateInput ==
  /\ (mounted /\ InputCount = 0) =>
       /\ variant = "TimeSeries" => (memo.linePath = <<>> /\ memo.areaPath = <<>>)
       /\ variant = "Curve" => (memo.linePath = <<>> /\ memo.areaPath = <<>>)
       /\ variant = "Contribution" => memo.paths = <<>>
  /\ (mounted /\ InputCount = 1) =>
       /\ variant = "TimeSeries" =>
            /\ memo.linePath = <<Cmd("M", TS_inputX(1), TS_inputY(1))>>
            /\ showArea => IsClosedOutline(memo.areaPath, 3)
       /\ variant = "Curve" =>
            /\ memo.linePath = <<Cmd("M", RC_inputX(1), RC_inputY(1))>>
            /\ IsClosedOutline(memo.areaPath, 2)
       /\ variant = "Contribution" =>
            /\ Len(memo.paths) = Len(data[1].channels)
            /\ \A k \in 1..Len(memo.paths) : IsClosedOutline(memo.paths[k].path, 2)

\* C9 witness: a filled time-series chart of exactly one point
C9_Witness ==
  /\ TS_Mounted
  /\ showArea
  /\ Len(data) = 1
  /\ Len(memo.linePath) = 1
  /\ memo.areaPath # <<>>

HasChannel(channels, id) == \E k \in 1..Len(channels) : channels[k].id = id

\* C10: the stacking order is the channel-id list of the first data point
\* and is the same for every bucket; in every bucket the layers are
\* contiguous intervals (the first has lower = 0, each has upper = lower +
\* value, each later one starts at the previous one's upper), and a channel
\* of the stacking order that is absent from a bucket gets value 0.
C10_StackedLayersContiguous ==
  (MMM_Mounted /\ Len(data) >= 1) =>
    /\ memo.seriesOrder = [k \in 1..Len(data[1].channels) |-> data[1].channels[k].id]
    /\ Len(memo.stacked) = Len(data)
    /\ \A b \in 1..Len(data) :
         LET layers == memo.stacked[b]
         IN  /\ Len(layers) = Len(memo.seriesOrder)
             /\ \A k \in 1..Len(layers) :
                  /\ layers[k].id = memo.seriesOrder[k]
                  /\ layers[k].lower = (IF k = 1 THEN 0 ELSE layers[k - 1].upper)
                  /\ layers[k].upper = layers[k].lower + layers[k].value
                  /\ ~HasChannel(data[b].channels, layers[k].id) => layers[k].value = 0
                  /\ HasChannel(data[b].channels, layers[k].id) =>
                       \E c \in 1..Len(data[b].channels) :
                         /\ data[b].channels[c].id = layers[k].id
                         /\ data[b].channels[c].mean = layers[k].value

\* C10 witness: the second bucket lacks the first channel of the stacking
\* order and has the second, which then starts at 0
C10_Witness ==
  /\ MMM_Mounted
  /\ Len(data) = 2
  /\ Len(memo.seriesOrder) = 2
  /\ ~HasChannel(data[2].channels, memo.seriesOrder[1])
  /\ HasChannel(data[2].channels, memo.seriesOrder[2])
  /\ memo.stacked[2][1].value = 0
  /\ memo.stacked[2][2].lower = 0
  /\ memo.stacked[2][2].upper > 0

\* Sum of the mean values of all the channels listed in a bucket
RECURSIVE SumMeans(_)
SumMeans(channels) ==
  IF Len(channels) = 0 THEN 0
  ELSE channels[1].mean + SumMeans(Tail(channels))

\* The running total of bucket b after its last layer (0 without layers)
BucketTotal(m, b) ==
  IF Len(m.stacked[b]) = 0 THEN 0
  ELSE m.stacked[b][Len(m.stacked[b])].upper

\* Sum of the heights of the layers of bucket b
RECURSIVE SumValues(_)
SumValues(layers) ==
  IF Len(layers) = 0 THEN 0
  ELSE layers[1].value + SumValues(Tail(layers))

\* C11 (as claimed): for every time bucket of every input, including the
\* buckets whose channel list differs from the first bucket's, the running
\* total after the last layer, which is the sum of the layer heights, equals
\* the sum of the mean values of all the channels listed in that bucket.
C11_StackedTotal ==
  (MMM_Mounted /\ Len(data) >= 1) =>
    \A b \in 1..Len(data) :
      /\ BucketTotal(memo, b) = SumValues(memo.stacked[b])
      /\ BucketTotal(memo, b) = SumMeans(data[b].channels)

RC_upperY(k) == RC_yScale(data.points[k].upper, memo.maxLift)
RC_lowerY(k) == RC_yScale(data.points[k].lower, memo.maxLift)

\* C12: for a response-curve channel with N >= 1 points the band path is an
\* 'M' at the first upper-bound point, 'L' commands through the remaining
\* upper-bound points in input order, then 'L' commands through the
\* lower-bound points in reverse input order, each lower value paired with
\* the spend of its own point, then a close command: 2N coordinate pairs.
C12_ConfidenceBandPath ==
  (RC_Mounted /\ Len(data.points) >= 1) =>
    LET n == Len(data.points)
        cmds == Commands(memo.areaPath)
    IN  /\ Len(cmds) = 2 * n + 1
        /\ \A k \in 1..n :
             /\ cmds[k] = Cmd(IF k = 1 THEN "M" ELSE "L", RC_inputX(k), RC_upperY(k))
             /\ cmds[n + k] = Cmd("L", RC_inputX(n + 1 - k), RC_lowerY(n + 1 - k))
        /\ cmds[2 * n + 1] = ZZ
        /\ IsSpaced(memo.areaPath, cmds)
        /\ CoordPairs(memo.areaPath) = 2 * n

\* C12 witness: a band over three points of which the first and the last
\* differ in spend and in lower bound, so that the pairing of the reversed
\* lower bounds with the spends shows
C12_Witness ==
  /\ RC_Mounted
  /\ Len(data.points) = 3
  /\ data.points[1].spend < data.points[3].spend
  /\ RC_lowerY(1) # RC_lowerY(3)
  /\ CoordPairs(memo.areaPath) = 6
  /\ EndsWithClose(memo.areaPath)

\* Every x of xs lies within [start, start + extent]
AllWithin(xs, start, extent) ==
  \A i \in 1..Len(xs) :
    RLeq(R(start), xs[i]) /\ RLeq(xs[i], R(start + extent))

\* C13 (as claimed): in the time-series chart and in the stacked
\* contribution chart the x-domain is the minimum and the maximum over all
\* parsed timestamps of the input, whatever the order of the input points,
\* and hence every point's scaled x lies within
\* [PADDING.left, PADDING.left + innerWidth].
C13_TimeDomain ==
  /\ (TS_Mounted /\ Len(data) >= 1) =>
       /\ memo.minX = MinOf(TS_times)
       /\ memo.maxX = MaxOf(TS_times)
       /\ AllWithin(TS_xs(memo), TS_PADDING.left, TS_innerWidth(size.width))
  /\ (MMM_Mounted /\ Len(data) >= 1) =>
       /\ MMM_minTime(memo.times) = MinOf(memo.times)
       /\ MMM_maxTime(memo.times) = MaxOf(memo.times)
       /\ AllWithin(MMM_xs(memo, size.width), MMM_PADDING.left,
                    MMM_innerWidth(size.width))

\* C13, the conclusion alone: every scaled x of the stacked contribution
\* chart lies within the plot area
C13_ContributionWithinPlot ==
  (MMM_Mounted /\ Len(data) >= 1) =>
    AllWithin(MMM_xs(memo, size.width), MMM_PADDING.left, MMM_innerWidth(size.width))

\* The left offset of the tooltip the time-series chart renders
TS_tooltip == TS_tooltipLeft(memo.points[hoverIndex + 1], size.width)

\* C14: in the time-series chart, for every measured width (0 included) and
\* every hovered point, the left offset L of the tooltip satisfies
\* L >= PADDING.left and L + 120 <= chartWidth - PADDING.right, with
\* chartWidth = max(measured width, 320).
C14_TooltipClamped ==
  (TS_Mounted /\ TS_hasHoveredPoint(memo.points, hoverIndex)) =>
    /\ RLeq(R(TS_PADDING.left), TS_tooltip)
    /\ RLeq(RAdd(TS_tooltip, R(120)),
            R(TS_chartWidth(size.width) - TS_PADDING.right))

\* C14 witness: at measured width 0 the hovered point is so far to the
\* right that its tooltip is held back at chartWidth - PADDING.right - 120
C14_Witness ==
  /\ TS_Mounted
  /\ size.width = 0
  /\ TS_hasHoveredPoint(memo.points, hoverIndex)
  /\ RLess(R(176), RSub(memo.points[hoverIndex + 1].x, R(60)))
  /\ TS_tooltip = R(176)

\* What a chart renders for its data: whether the no-data placeholder
\* element is part of the output, and how many data marks (paths, circles,
\* bars) are
TS_View(m, area) ==
  [placeholder |-> ~(Len(m.points) > 0),
   marks |-> (IF area /\ m.areaPath # <<>> THEN 1 ELSE 0)
             + (IF m.linePath # <<>> THEN 1 ELSE 0)
             + Len(m.points)]

SC_View(m) == [placeholder |-> Len(m.points) = 0, marks |-> Len(m.points)]

Bar_View(m) == [placeholder |-> Len(m.bars) = 0, marks |-> Len(m.bars)]

\* MMMContributionChart has no placeholder element
MMM_View(m) == [placeholder |-> FALSE, marks |-> Len(m.paths)]

\* ResponseCurveCard of one channel
RC_CardView(curve) ==
  [placeholder |-> FALSE,
   marks |-> (IF curve.areaPath # <<>> THEN 1 ELSE 0)
             + (IF curve.linePath # <<>> THEN 1 ELSE 0)]

RECURSIVE SumMarks(_)
SumMarks(views) ==
  IF Len(views) = 0 THEN 0 ELSE views[1].marks + SumMarks(Tail(views))

\* MMMResponseCurveGrid over a list of channels
MMMResponseCurveGrid(channels) ==
  IF Len(channels) = 0
  THEN [placeholder |-> TRUE, marks |-> 0]
  ELSE [placeholder |-> FALSE,
        marks |-> SumMarks([i \in 1..Len(channels) |->
                              RC_CardView(computeCurve(channels[i]))])]

\* The output of the mounted chart; for a response-curve card, of a grid
\* of that one channel
View ==
  CASE variant = "TimeSeries" -> TS_View(memo, showArea)
    [] variant = "Scatter" -> SC_View(memo)
    [] variant = "Bar" -> Bar_View(memo)
    [] variant = "Contribution" -> MMM_View(memo)
    [] variant = "Curve" -> MMMResponseCurveGrid(<<data>>)

\* C15 (as claimed): given zero data points, every chart variant
\* (time-series, bar, scatter, stacked contribution, response-curve grid)
\* renders the no-data placeholder and draws no data marks.  The input of
\* the response-curve grid is its list of channels.
C15_EmptyInputPlaceholder ==
  /\ (mounted /\ variant # "Curve" /\ Len(data) = 0) =>
       (View.placeholder /\ View.marks = 0)
  /\ RC_Mounted =>
       /\ MMMResponseCurveGrid(<<>>).placeholder
       /\ MMMResponseCurveGrid(<<>>).marks = 0

Bar_Mounted == mounted /\ variant = "Bar"
Bar_values == [i \in 1..Len(data) |-> data[i].value]
\* The pixel width of the bar at (1-based) position i of the mounted chart
Bar_renderedWidth(i) ==
  Bar_width(memo.bars[i], memo.maxValue, Bar_barAreaWidth(size.width))

\* C16: every rendered bar has pixel width max(value / maxValue *
\* barAreaWidth, 4), maxValue being the largest value of the data, replaced
\* by 1 when that is 0; so a bar of value 0 is 4 wide, and when all values
\* are >= 0 every width lies in [4, barAreaWidth] and the bar of the largest
\* value, when that is > 0, is exactly barAreaWidth wide.
C16_BarWidthFloor ==
  (Bar_Mounted /\ Len(data) >= 1) =>
    LET area == Bar_barAreaWidth(size.width)
        largest == MaxOf(Bar_values)
        maxValue == IF largest = 0 THEN 1 ELSE largest
    IN  /\ Len(memo.bars) = Len(data)
        /\ \A i \in 1..Len(data) :
             LET scaled == RDiv(R(data[i].value * area), R(maxValue))
             IN  /\ Bar_renderedWidth(i) = (IF RLess(scaled, R(4)) THEN R(4) ELSE scaled)
                 /\ data[i].value = 0 => Bar_renderedWidth(i) = R(4)
        /\ (\A i \in 1..Len(data) : data[i].value >= 0) =>
             \A i \in 1..Len(data) :
               /\ RLeq(R(4), Bar_renderedWidth(i))
               /\ RLeq(Bar_renderedWidth(i), R(area))
               /\ (data[i].value = largest /\ largest > 0) =>
                    Bar_renderedWidth(i) = R(area)

\* C16 witness: at measured width 400 a bar of value 0 is 4 wide next to
\* the bar of the largest value 10, which is 240 wide
C16_Witness ==
  /\ Bar_Mounted
  /\ size.width = 400
  /\ Len(data) >= 2
  /\ data[1].value = 0
  /\ data[2].value = 10
  /\ Bar_renderedWidth(1) = R(4)
  /\ Bar_renderedWidth(2) = R(240)

RC_spends == [i \in 1..Len(data.points) |-> data.points[i].spend]
RC_means == [i \in 1..Len(data.points) |-> data.points[i].mean]
\* The x / y coordinates of the commands of a path string
PathXs(s) == [k \in 1..Len(Commands(s)) |-> Commands(s)[k].x]
PathYs(s) == [k \in 1..Len(Commands(s)) |-> Commands(s)[k].y]

MMM_totals == [b \in 1..Len(data) |-> BucketTotal(memo, b)]
\* The y of the top of the stack in every bucket: the upper boundary of the
\* last layer
MMM_topYs ==
  LET top == Commands(memo.paths[Len(memo.paths)].path)
  IN  [b \in 1..Len(data) |-> top[b].y]

\* C17 (as claimed): in the response-curve and stacked-contribution
\* variants, when all data values on an axis are equal or there is a single
\* point (one response-curve point; one time bucket; all spends, means or
\* bucket totals equal), the scale on that axis maps every data value to the
\* geometric centre of its pixel range.
C17_DegenerateMidpointOther ==
  /\ (RC_Mounted /\ Len(data.points) >= 1) =>
       /\ ~HasSpread(RC_spends) =>
            AllAtMidpoint(PathXs(memo.linePath), RC_PADDING.left,
                          RC_WIDTH - RC_PADDING.right)
       /\ ~HasSpread(RC_means) =>
            AllAtMidpoint(PathYs(memo.linePath), RC_PADDING.top,
                          RC_HEIGHT - RC_PADDING.bottom)
  /\ (MMM_Mounted /\ Len(data) >= 1) =>
       /\ ~HasSpread(memo.times) =>
            AllAtMidpoint(MMM_xs(memo, size.width), MMM_PADDING.left,
                          MMM_PADDING.left + MMM_innerWidth(size.width))
       /\ (~HasSpread(MMM_totals) /\ Len(memo.paths) >= 1) =>
            AllAtMidpoint(MMM_topYs, MMM_PADDING.top,
                          MMM_PADDING.top + MMM_innerHeight(height))

\* The size useMeasure reports before any measurement
FallbackSize == [width |-> 0, height |-> height]

\* C18: for every sequence mount, resize notifications, unmount of a
\* component using useMeasure, each resize observer that was created is
\* disconnected exactly once, at unmount (never before), and after unmount
\* no further size update is published; if the element is not attached
\* when the mount effect runs, no observer is created, then or later, and
\* the reported size stays at the fallback.
C18_MeasurementRelease ==
  /\ [](\A o \in 1..Len(observers) :
          IF unmounted
          THEN ~observers[o].observing /\ observers[o].disconnects = 1
          ELSE observers[o].observing /\ observers[o].disconnects = 0)
  /\ [][unmounted => (size' = size /\ published' = published)]_vars
  /\ [][(~mounted /\ mounted' /\ ~attached) =>
          (observers' = <<>> /\ size' = FallbackSize)]_vars
  /\ [][(mounted /\ observers = <<>>) =>
          (observers' = <<>> /\ size' = FallbackSize /\ published' = <<>>)]_vars

\* C18 witness: a component that was measured at mount and once more by
\* its observer has been unmounted, and its one observer is disconnected
C18_Witness ==
  /\ unmounted
  /\ Len(observers) = 1
  /\ observers[1].disconnects = 1
  /\ Len(published) = 2
  /\ published[1].width # published[2].width

\* C18 witness for the unattached case: the element was attached only after
\* the effect had run, and the component was then unmounted
C18_WitnessUnattached ==
  /\ unmounted
  /\ attached
  /\ observers = <<>>
  /\ size = FallbackSize

\* The chart width, inner plot width and inner plot height a component
\* computes its geometry from, at height prop h and measured width `width`
Geometry(v, h, width) ==
  CASE v = "TimeSeries" ->
         [chartWidth |-> TS_chartWidth(width), innerWidth |-> TS_innerWidth(width),
          innerHeight |-> TS_innerHeight(h)]
    [] v = "Scatter" ->
         [chartWidth |-> SC_chartWidth(width), innerWidth |-> SC_innerWidth(width),
          innerHeight |-> SC_innerHeight(h)]
    [] v = "Bar" ->
         [chartWidth |-> Bar_chartWidth(width), innerWidth |-> Bar_barAreaWidth(width),
          innerHeight |-> BAR_HEIGHT]
    [] v = "Contribution" ->
         [chartWidth |-> MMM_chartWidth(width), innerWidth |-> MMM_innerWidth(width),
          innerHeight |-> MMM_innerHeight(h)]
    [] v = "Curve" ->
         [chartWidth |-> RC_WIDTH,
          innerWidth |-> RC_WIDTH - RC_PADDING.left - RC_PADDING.right,
          innerHeight |-> RC_HEIGHT - RC_PADDING.top - RC_PADDING.bottom]

\* The scaled x of the points of the last render span [left, right] when
\* the data has spread on x, and lie within it in any case
SpansRange(dataXs, xs, left, right) ==
  /\ AllWithin(xs, left, right - left)
  /\ HasSpread(dataXs) =>
       (\E i \in 1..Len(xs) : xs[i] = R(left)) /\ (\E i \in 1..Len(xs) : xs[i] = R(right))

\* The geometry of the mounted chart uses the chart width cw (the x-domain
\* of a response curve starts at spend 0, which is drawn at PADDING.left)
UsesChartWidth(cw) ==
  /\ Geometry(variant, height, size.width).chartWidth = cw
  /\ (variant = "TimeSeries" /\ Len(data) >= 1) =>
       SpansRange(TS_times, TS_xs(memo), TS_PADDING.left, cw - TS_PADDING.right)
  /\ (variant = "Scatter" /\ Len(data) >= 1) =>
       SpansRange(SC_dataXs, SC_cxs(memo), SC_PADDING.left, cw - SC_PADDING.right)
  /\ (variant = "Curve" /\ Len(data.points) >= 1) =>
       SpansRange(<<0>> \o RC_spends, <<R(RC_PADDING.left)>> \o PathXs(memo.linePath),
                  RC_PADDING.left, cw - RC_PADDING.right)

\* C19 (as claimed): before the first measurement useMeasure reports width
\* 0 and the caller's initial height; and in every state every chart
\* variant computes its geometry from chartWidth = max(width, 320), so the
\* width used for scaling is >= 320 and the inner plot width and height are
\* >= 1.
C19_WidthFloor_Claimed ==
  /\ ~mounted => size = FallbackSize
  /\ mounted =>
       /\ UsesChartWidth(IMax(size.width, 320))
       /\ Geometry(variant, height, size.width).chartWidth >= 320
       /\ Geometry(variant, height, size.width).innerWidth >= 1
       /\ Geometry(variant, height, size.width).innerHeight >= 1

\* C19 (amended): before the first measurement useMeasure reports width 0
\* and the caller's initial height; in every state each variant that
\* measures its container (time-series, scatter, bar, stacked contribution)
\* computes its geometry from chartWidth = max(width, 320) >= 320, while the
\* response-curve card always uses the fixed width 280; in every variant
\* the inner plot width and height are >= 1.
C19_WidthFloor ==
  /\ ~mounted => size = FallbackSize
  /\ mounted =>
       /\ variant \in MeasuredVariants =>
            /\ UsesChartWidth(IMax(size.width, 320))
            /\ Geometry(variant, height, size.width).chartWidth >= 320
       /\ variant = "Curve" => UsesChartWidth(RC_WIDTH)
       /\ Geometry(variant, height, size.width).innerWidth >= 1
       /\ Geometry(variant, height, size.width).innerHeight >= 1

\* C19 witness: a scatter chart measured at width 200, less than the floor,
\* with a height prop that leaves nothing between the paddings, draws
\* points with spread on x from 56 to 320 - 32
C19_Witness ==
  /\ SC_Mounted
  /\ size.width = 200
  /\ height = 60
  /\ HasSpread(SC_dataXs)
  /\ \E i, j \in 1..Len(memo.points) :
       memo.points[i].cx = R(56) /\ memo.points[j].cx = R(288)
  /\ Geometry(variant, height, size.width).innerHeight = 1

\* Instance i runs its fetch effect with the props params in this step
RunsFetchEffect(i, params) == RC_Mount(i, params) \/ RC_ChangeParams(i, params)

\* C20: for any interleaving of mounts, parameter changes and unmounts of
\* the MeridianResponseCurves instances and of response arrivals, at most
\* one request per cache key is in flight at any time; an instance that
\* needs a key whose request is already in flight issues no request and
\* waits for that request, and when the request settles every instance
\* still waiting for it receives its result (the data or the error).
C20_ResponseCacheDedup ==
  /\ [](\A key \in CacheKeys : Cardinality(InFlight(key)) <= 1)
  /\ [][\A i \in InstanceIds : \A params \in CurveParams :
          (RunsFetchEffect(i, params) /\ InFlight(getCacheKey(params)) # {}) =>
            /\ requests' = requests
            /\ instances'[i].waiting \in InFlight(getCacheKey(params))
            /\ instances'[i].loading]_vars
  /\ [][\A r \in 1..Len(requests) : \A i \in InstanceIds :
          (requests[r].status = "pending" /\ instances[i].waiting = r) =>
            /\ requests'[r].status = "resolved" =>
                 (instances'[i].spec = r /\ ~instances'[i].loading
                  /\ instances'[i].error = Null)
            /\ requests'[r].status = "rejected" =>
                 (instances'[i].error = r /\ ~instances'[i].loading)]_vars

\* C20 witness: two instances whose props differ but give the same cache
\* key wait for the one request that was issued
C20_Witness ==
  /\ Len(requests) = 1
  /\ requests[1].status = "pending"
  /\ instances["a"].waiting = 1
  /\ instances["b"].waiting = 1
  /\ instances["a"].params # instances["b"].params

\* The entry of the key has data (its request has succeeded)
HasData(key) == responseCache[key] # Null /\ requests[responseCache[key]].data

\* C21: a successful response is stored with expiry = completion time + 5
\* minutes; an instance that needs the key strictly before the expiry shows
\* the cached spec at once (loading false, error null) and issues no
\* request; an instance that needs the key at or after the expiry removes
\* the entry and issues exactly one new request; and data past its expiry
\* is never displayed from the cache.
C21_ResponseCacheTTL ==
  /\ [][\A r \in 1..Len(requests) :
          (requests[r].status = "pending" /\ requests'[r].status = "resolved") =>
            (requests'[r].data /\ requests'[r].expiresAt = now + CACHE_TTL)]_vars
  /\ [][\A i \in InstanceIds : \A params \in CurveParams :
          LET key == getCacheKey(params)
              entry == responseCache[key]
          IN  (RunsFetchEffect(i, params) /\ HasData(key)) =>
                IF now < requests[entry].expiresAt
                THEN /\ instances'[i].spec = entry
                     /\ ~instances'[i].loading
                     /\ instances'[i].error = Null
                     /\ requests' = requests
                     /\ responseCache' = responseCache
                ELSE /\ Len(requests') = Len(requests) + 1
                     /\ responseCache'[key] = Len(requests')
                     /\ requests'[Len(requests')].status = "pending"
                     /\ requests'[Len(requests')].key = key
                     /\ instances'[i].waiting = Len(requests')
                     /\ instances'[i].loading]_vars
  /\ [][\A i \in InstanceIds : \A r \in 1..Len(requests) :
          (instances'[i].spec = r /\ instances[i].spec # r
           /\ requests[r].status = "resolved") =>
            now < requests[r].expiresAt]_vars

\* C21 witness: the data of the first request expired at minute 5, and at
\* minute 5 an instance that needed its key has replaced the entry by a
\* new request
C21_Witness ==
  /\ now = 5
  /\ Len(requests) = 2
  /\ requests[1].status = "resolved"
  /\ requests[1].expiresAt = 5
  /\ requests[2].key = requests[1].key
  /\ requests[2].status = "pending"
  /\ responseCache[requests[1].key] = 2
  /\ \E i \in InstanceIds : instances[i].waiting = 2

\* C21 witness for the fresh case: at minute 4, before the expiry at minute
\* 5, an instance shows the data of the only request while another one
\* holding other props of the same key shows it too
C21_WitnessFresh ==
  /\ now = 4
  /\ Len(requests) = 1
  /\ requests[1].expiresAt = 5
  /\ instances["a"].spec = 1 /\ instances["b"].spec = 1
  /\ instances["a"].params # instances["b"].params

\* The requests that have failed
Rejected == {r \in 1..Len(requests) : requests[r].status = "rejected"}

\* C22: when a request fails, every instance waiting for it that has not
\* been cancelled ends with loading = false and a non-null error; the cache
\* holds no entry for the key of a failed request afterwards; and no new
\* request is issued until an instance mounts or changes its parameters
\* (there is no automatic retry).
C22_RequestFailure ==
  /\ [][\A r \in 1..Len(requests) :
          (requests[r].status = "pending" /\ requests'[r].status = "rejected") =>
            /\ responseCache'[requests[r].key] = Null
            /\ \A i \in InstanceIds :
                 instances[i].waiting = r =>
                   /\ ~instances'[i].loading
                   /\ instances'[i].error # Null
                   /\ instances'[i].waiting = Null]_vars
  /\ [](\A r \in Rejected : \A key \in CacheKeys : responseCache[key] # r)
  /\ [][requests' # requests =>
          \/ \E r \in 1..Len(requests) :
               /\ requests[r].status = "pending"
               /\ requests'[r].status # "pending"
               /\ Len(requests') = Len(requests)
          \/ \E i \in InstanceIds : \E params \in CurveParams :
               RunsFetchEffect(i, params)]_vars
  /\ [][\A i \in InstanceIds :
          (instances[i].mounted /\ instances[i].error # Null
           /\ ~(\E params \in CurveParams : RunsFetchEffect(i, params))
           /\ instances'[i].mounted) =>
            (instances'[i].error = instances[i].error /\ ~instances'[i].loading)]_vars

\* C22 witness: the only request has failed, both instances that waited for
\* it show its error, the cache has no entry for its key, and five minutes
\* later no other request has been issued
C22_Witness ==
  /\ now = 5
  /\ Len(requests) = 1
  /\ requests[1].status = "rejected"
  /\ responseCache[requests[1].key] = Null
  /\ \A i \in InstanceIds :
       instances[i].error = 1 /\ ~instances[i].loading

\* C23: when one upstream fetch of MarketingMixDashboard fails after a
\* successful bootstrap (the geo series of the selected geo), the failure
\* is confined to the geo panel: the dashboard with its summary cards,
\* national charts, channel bar chart and table is still rendered, and
\* once a later geo load has succeeded the geo panel shows its charts.
C23_ErrorContainment ==
  /\ [](\A r \in 1..Len(geoRequests) :
          (dashboard.phase = "mounted" /\ dashboard.initialized
           /\ geoRequests[r].status = "rejected" /\ ~geoRequests[r].cancelled) =>
            /\ MMD_View(dashboard).page = "dashboard"
            /\ MMD_View(dashboard).summaryCards = "rendered"
            /\ MMD_View(dashboard).nationalPanel = "rendered"
            /\ MMD_View(dashboard).channelPanel = "rendered")
  /\ [][\A r \in 1..Len(geoRequests) :
          (geoRequests[r].status = "pending" /\ ~geoRequests[r].cancelled
           /\ geoRequests'[r].status = "resolved") =>
            /\ MMD_View(dashboard').page = "dashboard"
            /\ MMD_View(dashboard').geoPanel = "charts"]_vars

\* Run r of an effect has been superseded by a later run
Superseded(reqs, r) == r < Len(reqs)

\* The call of run r settles in this step
Settles(reqs, reqsNext, r) ==
  /\ r \in 1..Len(reqs)
  /\ reqs[r].status = "pending"
  /\ reqsNext[r].status # "pending"

\* C26: in MMMResponseCurvesPage (spendSteps) and MarketingMixDashboard
\* (selectedGeo) the response or failure of a request for a superseded
\* parameter value, or one arriving after unmount, writes neither
\* channels/geoSeries nor error nor the loading flag; the request of the
\* latest run is the one for the current parameter value, and the loading
\* flag is cleared only by the settlement of that request.
C26_StaleResponsesIgnored ==
  /\ [][\A r \in 1..Len(curveRequests) :
          (Settles(curveRequests, curveRequests', r)
           /\ (Superseded(curveRequests, r) \/ curvesPage.phase = "unmounted")) =>
            curvesPage' = curvesPage]_vars
  /\ [][\A r \in 1..Len(geoRequests) :
          (Settles(geoRequests, geoRequests', r)
           /\ (Superseded(geoRequests, r) \/ dashboard.phase = "unmounted")) =>
            dashboard' = dashboard]_vars
  /\ [](curvesPage.phase = "mounted" =>
          curveRequests[Len(curveRequests)].param = curvesPage.spendSteps)
  /\ [](geoRequests # <<>> =>
          geoRequests[Len(geoRequests)].param = dashboard.selectedGeo)
  /\ [][(curvesPage.loading /\ ~curvesPage'.loading) =>
          /\ curvesPage.phase = "mounted"
          /\ Settles(curveRequests, curveRequests', Len(curveRequests))]_vars
  /\ [][(dashboard.loadingGeo /\ ~dashboard'.loadingGeo) =>
          /\ dashboard.phase = "mounted"
          /\ Settles(geoRequests, geoRequests', Len(geoRequests))]_vars

\* C26 witness: in both components the call of the first run has settled
\* after the parameter changed, and the component still waits for the call
\* of the second run with nothing of the first one written
C26_Witness ==
  /\ Len(curveRequests) = 2
  /\ curveRequests[1].status = "resolved"
  /\ curveRequests[2].status = "pending"
  /\ curvesPage.loading /\ curvesPage.channels = Null
  /\ Len(geoRequests) = 2
  /\ geoRequests[1].status = "rejected"
  /\ geoRequests[2].status = "pending"
  /\ dashboard.loadingGeo /\ dashboard.error = Null /\ dashboard.geoSeries = Null

\* C26 witness after unmount: the calls of the unmounted components return
\* and the state the components had is as it was
C26_WitnessUnmounted ==
  /\ curvesPage.phase = "unmounted" /\ curvesPage.loading
  /\ curveRequests[Len(curveRequests)].status = "rejected"
  /\ curvesPage.error = Null
  /\ dashboard.phase = "unmounted" /\ dashboard.loadingGeo
  /\ geoRequests # <<>>
  /\ geoRequests[Len(geoRequests)].status = "resolved"
  /\ dashboard.geoSeries = Null

\* The requests the route handler sent to the backend for fetch f
BackendCallsOf(f) == {k \in 1..Len(backendCalls) : backendCalls[k].fetch = f}

\* C24: GET /api/me, when the identity provider yields no token, responds
\* 401 with the body {"error":"Unauthorized"} and makes no request to the
\* backend; when a token exists it makes exactly one backend request to /me
\* carrying 'Authorization: Bearer <token>' and relays the backend's status
\* code and body unchanged, for success and error statuses alike.
C24_AuthProxy ==
  \A f \in 1..Len(meFetches) :
    meFetches[f].stage \in {"responded", "settled"} =>
      IF meFetches[f].token = ""
      THEN /\ meFetches[f].response =
                [status |-> 401, body |-> "{\"error\":\"Unauthorized\"}"]
           /\ BackendCallsOf(f) = {}
      ELSE /\ Cardinality(BackendCallsOf(f)) = 1
           /\ \A k \in BackendCallsOf(f) :
                /\ backendCalls[k].path = "/me"
                /\ backendCalls[k].Authorization = <<"Bearer", meFetches[f].token>>
           /\ meFetches[f].response.status = meFetches[f].backend.status
           /\ meFetches[f].response.body = meFetches[f].backend.body

\* The fetches of the hook that are still in flight
MeInFlight == {f \in 1..Len(meFetches) : meFetches[f].stage # "settled"}

\* C27: for any interleaving of the initial fetch and calls to refetch,
\* loading is true whenever at least one /api/me fetch started by the hook
\* is still in flight, and once all fetches have settled userData and error
\* reflect the outcome of the most recently started fetch.
C27_UserSyncLoading ==
  /\ MeInFlight # {} => userSync.loading
  /\ (meFetches # <<>> /\ MeInFlight = {}) =>
       LET o == Outcome(meFetches[Len(meFetches)].response)
       IN  /\ o.error = "unchanged" => userSync.error = "null"
           /\ o.error # "unchanged" => userSync.error = o.error
           /\ o.userData # "unchanged" => userSync.userData = o.userData

\* The preload sequences in flight
PreloadInFlight == {p \in 1..Len(preloads) : preloads[p].promise = "pending"}

\* A call of preloadMMMData returns in this step
PreloadCalled == Len(preloadCalls') = Len(preloadCalls) + 1

\* C25: for any interleaving of calls to preloadMMMData and of request
\* completions, at most one preload sequence (the model preload request,
\* then the response-curves request) is in flight at a time; a call made
\* while one is in flight or after one has succeeded returns the same
\* promise and issues no request; after a sequence fails the stored promise
\* is reset so that the next call starts a new sequence; and the returned
\* promise never rejects.
C25_PreloadSingleFlight ==
  /\ [](Cardinality(PreloadInFlight) <= 1)
  /\ [](\A p \in 1..Len(preloads) :
          /\ preloads[p].promise # "rejected"
          /\ preloads[p].sent \in
               {<<"POST /mmm/preload">>,
                <<"POST /mmm/preload", "GET /mmm/response-curves?spend_steps=50">>}
          /\ preloads[p].awaiting = "preloadMMMModel" => Len(preloads[p].sent) = 1
          /\ preloads[p].awaiting \in {"getMMMResponseCurves", "done"} =>
               Len(preloads[p].sent) = 2)
  /\ [][\A p \in 1..Len(preloads) :
          (PreloadCalled /\ (p \in PreloadInFlight
                             \/ (preloads[p].awaiting = "done" /\ preloadPromise = p))) =>
            /\ preloadCalls'[Len(preloadCalls')] = p
            /\ preloads' = preloads]_vars
  /\ [](\A p \in 1..Len(preloads) :
          preloads[p].awaiting = "done" => preloadPromise = p)
  /\ [][\A p \in PreloadInFlight :
          preloads'[p].awaiting = "failed" => preloadPromise' = Null]_vars
  /\ [][(PreloadCalled /\ PreloadInFlight = {}
         /\ \A p \in 1..Len(preloads) : preloads[p].awaiting = "failed") =>
            /\ Len(preloads') = Len(preloads) + 1
            /\ preloads'[Len(preloads')].promise = "pending"
            /\ preloadCalls'[Len(preloadCalls')] = Len(preloads')]_vars

\* C25 witness: the first sequence failed at its second request, the second
\* one was started by the next call and joined by two more calls, and has
\* succeeded
C25_Witness ==
  /\ Len(preloads) = 2
  /\ preloads[1].awaiting = "failed" /\ Len(preloads[1].sent) = 2
  /\ preloads[2].awaiting = "done"
  /\ preloadCalls = <<1, 2, 2, 2>>

\* The views that have been created and not finalized
Unfinalized == {v \in 1..Len(vegaViews) : vegaViews[v].finalized = 0}

\* The runs of the render effect whose renderChart has not returned
PendingRenders == {k \in 1..Len(renders) : renders[k].at # "done"}

\* C28: for any interleaving of spec changes, completions of the import
\* and embed calls and unmount of a MeridianResponseCurves instance, the
\* instance holds at most one un-finalized view (the one in viewRef), a
\* view whose embed completes after its effect was disposed is finalized
\* at once and never stored, and once the instance is unmounted and all
\* pending renders have completed every view created has been finalized.
C28_VegaViewLifecycle ==
  /\ [](Cardinality(Unfinalized) <= 1)
  /\ [](Unfinalized \subseteq {chartInstance.viewRef})
  /\ [][\A k \in 1..Len(renders) :
          (renders[k].disposed /\ Len(vegaViews') = Len(vegaViews) + 1
           /\ renders[k].at = "embed" /\ renders'[k].at = "done") =>
            /\ vegaViews'[Len(vegaViews')].finalized = 1
            /\ chartInstance'.viewRef = chartInstance.viewRef]_vars
  /\ [](\A v \in 1..Len(vegaViews) :
          renders[vegaViews[v].render].disposed =>
            (vegaViews[v].finalized = 1 /\ chartInstance.viewRef # v))
  /\ []((chartInstance.phase = "unmounted" /\ PendingRenders = {}) =>
          \A v \in 1..Len(vegaViews) : vegaViews[v].finalized = 1)

\* C28 witness: after unmount all renders have completed; the view of the
\* first run was held and finalized by the cleanup, and the view of the
\* second run, whose embed completed after unmount, was finalized at once
C28_Witness ==
  /\ chartInstance.phase = "unmounted"
  /\ PendingRenders = {}
  /\ Len(vegaViews) = 2
  /\ vegaViews[1].render = 1 /\ vegaViews[2].render = 2
  /\ \A v \in 1..2 : vegaViews[v].finalized = 1

\* C30: in the time-series chart, for every measured width (0 and widths
\* below 320 included), the pointer-sensitive rectangle spans exactly the
\* horizontal extent over which the points are scaled, from PADDING.left to
\* PADDING.left + innerWidth with
\* innerWidth = max(max(width, 320) - PADDING.left - PADDING.right, 1), so
\* that the x of every data point lies inside the rectangle.
C30_RectMatchesPlot ==
  (TS_Mounted /\ ~TS_View(memo, showArea).placeholder) =>
    /\ TS_rectX = TS_PADDING.left
    /\ TS_rectWidth(size.width) =
         IMax(IMax(size.width, 320) - TS_PADDING.left - TS_PADDING.right, 1)
    /\ \A i \in 1..Len(memo.points) :
         /\ RLeq(R(TS_rectX), memo.points[i].x)
         /\ RLeq(memo.points[i].x, R(TS_rectX + TS_rectWidth(size.width)))

\* The hover index addresses one of the N points of the current data
HoverInRange == hoverIndex # Null /\ hoverIndex \in 0..(Len(data) - 1)

\* C29: for any interleaving of data changes (to fewer or zero points
\* included), resizes, pointer-moves and pointer-leaves in the time-series
\* and stacked contribution charts, a tooltip is rendered if and only if
\* the hover index is non-null and within 0..N-1 for the current N points,
\* and it then shows the point of the current data at that index; a stale
\* index left over from earlier data never reads a point out of range.
C29_HoverValidity ==
  /\ TS_Mounted =>
       LET tip == TS_hoveredPoint(memo, hoverIndex)
       IN  /\ tip # <<>> <=> HoverInRange
           /\ tip # <<>> =>
                /\ tip[1].value = data[hoverIndex + 1].value
                /\ tip[1].date = DateParse(data[hoverIndex + 1].time)
                /\ tip[1] = TimeSeriesMemo(data, height, showArea, size.width).points[hoverIndex + 1]
  /\ MMM_Mounted =>
       LET tip == MMM_hoveredLayers(memo, hoverIndex)
       IN  /\ tip # <<>> <=> HoverInRange
           /\ tip # <<>> =>
                /\ tip[1].time = DateParse(data[hoverIndex + 1].time)
                /\ tip[1].layers = StackedMemo(data).stacked[hoverIndex + 1]

\* C29 witness: the data of a time-series chart has changed to a single
\* point while the index of the third point of the earlier data is still
\* in the hover state, and no tooltip is rendered
C29_Witness ==
  /\ TS_Mounted
  /\ hoverIndex = 2
  /\ Len(data) = 1
  /\ TS_hoveredPoint(memo, hoverIndex) = <<>>

\* C29 witness for the contribution chart: the hover index 1 is left over
\* from earlier data, the current data has a single bucket, and no tooltip
\* is rendered
C29_WitnessContribution ==
  /\ MMM_Mounted
  /\ hoverIndex = 1
  /\ Len(data) = 1
  /\ MMM_hoveredLayers(memo, hoverIndex) = <<>>

====
